---- MODULE Spec2Model ----
(***************************************************************************)
(* The state / notification core of ribir_core, core/src/state:           *)
(* one StateCell shared by writer and reader handles, the WriterInfo of   *)
(* every notification scope, the WriteRef guard and its Drop batching,    *)
(* the writer family (Stateful, PartWriter, SplittedWriter, type-erased   *)
(* Writer), the readers, and the scheduler queue fed by                   *)
(* AppCtx::data_changed.                                                  *)
(*                                                                         *)
(* A handle is the sequence of its layers, root first: a PartWriter over  *)
(* a Writer over a Stateful is <<Stateful, Writer, Part>>.  Every handle  *)
(* owns its own clone of each layer below it, as in the source            *)
(* (part_writer stores `origin: self.clone_writer()`).                    *)
(***************************************************************************)
EXTENDS Integers, Sequences, FiniteSets, TLC

\* ------------------------------------------------------------------ bounds
MaxHandles == 2   \* live handles (writers and readers)
MaxDepth   == 1   \* derivation layers (part / split / part reader) per handle
MaxSplits  == 2   \* SplittedWriter scopes ever created
MaxBatch   == 2   \* distinct commits not yet drained
MaxQueue   == 3   \* scheduler requests outstanding
MaxVal     == 1   \* field values are 0..MaxVal
MaxReads   == 2   \* read guards alive
MaxSubs    == 1   \* subscriptions made after the family is built

VARIABLES
  value,             \* the StateCell's payload, a struct {a, b}
  borrow,            \* the StateCell's borrow flag: 0, n > 0 shared, < 0 exclusive
  handles,           \* slot -> layers of the live handle, <<>> when free
  wrefs,             \* live WriteRef guards
  rrefs,             \* slot -> number of live ReadRef guards taken through it
  batched_modifies,  \* WriterInfo -> batched modify effect
  writer_count,      \* WriterInfo -> live writer counter
  infos,             \* number of SplittedWriter WriterInfos allocated
  queue,             \* scheduler requests not yet run, oldest first
  subs,              \* subscriptions: the writer raw_modifies() was called on and
                     \* whether the modifies() filter is applied
  emitted,           \* << the event the notifiers emitted last >>, << >> before the first
  batch,             \* WriterInfo -> the commits since its last drain
  last,              \* the last call and its outcome
  panicked           \* a borrow conflict aborted the program

vars == << value, borrow, handles, wrefs, rrefs, batched_modifies, writer_count,
           infos, queue, subs, emitted, batch, last, panicked >>

\* ------------------------------------------------------------ ModifyEffect
DATA      == {"DATA"}
FRAMEWORK == {"FRAMEWORK"}
BOTH      == DATA \cup FRAMEWORK
NoEffect  == {}

Infos   == 0 .. MaxSplits
Slots   == DOMAIN handles
Vals    == 0 .. MaxVal
Fields  == {"a", "b"}
NoHandle == << >>
Kinds   == {"write", "silent", "shallow"}

\* ------------------------------------------------------------------ layers
StatefulL(inc) ==
  [k |-> "Stateful", path |-> << >>, inc |-> inc, info |-> 0, proj |-> "whole"]
WriterL ==
  [k |-> "Writer", path |-> << >>, inc |-> FALSE, info |-> 0, proj |-> "whole"]
PartL(path, inc, proj) ==
  [k |-> "Part", path |-> path, inc |-> inc, info |-> 0, proj |-> proj]
SplitL(info, proj) ==
  [k |-> "Split", path |-> << >>, inc |-> FALSE, info |-> info, proj |-> proj]
\* Box<dyn StateWriter> holding the writer below it.
BoxL ==
  [k |-> "Box", path |-> << >>, inc |-> FALSE, info |-> 0, proj |-> "whole"]
ReaderL ==
  [k |-> "Reader", path |-> << >>, inc |-> FALSE, info |-> 0, proj |-> "whole"]
PartReaderL(proj) ==
  [k |-> "PartReader", path |-> << >>, inc |-> FALSE, info |-> 0, proj |-> proj]
\* Watcher { reader, modifies_observable }: the layers below are the reader, and
\* stream is the writer (its layers when raw_modifies() was called) whose
\* stream the watcher holds.
WatcherL(stream) ==
  [k |-> "Watcher", path |-> << >>, inc |-> FALSE, info |-> 0, proj |-> "whole",
   stream |-> stream]

Top(L)    == L[Len(L)]
Origin(L) == SubSeq(L, 1, Len(L) - 1)
SetTop(L, l) == [L EXCEPT ![Len(L)] = l]

IsWriter(L) == L # NoHandle /\ Top(L).k \in {"Stateful", "Writer", "Part", "Split", "Box"}
Depth(L) == Cardinality({i \in 1 .. Len(L) : L[i].k \in {"Part", "Split", "PartReader"}})

\* The composition of the projections of a chain: a field of the struct, or the
\* whole struct; a projection applied to a field is the identity.
RECURSIVE ProjOf(_)
ProjOf(L) ==
  IF L = << >> THEN "whole"
  ELSE LET p == ProjOf(Origin(L))
       IN IF p = "whole" THEN Top(L).proj ELSE p

\* The WriterInfo a guard of this writer commits to: the innermost enclosing
\* SplittedWriter's, else the root Stateful's.
RECURSIVE ScopeInfo(_)
ScopeInfo(L) ==
  IF L = << >> THEN 0
  ELSE IF Top(L).k = "Split" THEN Top(L).info
  ELSE ScopeInfo(Origin(L))

\* ------------------------------------------------- notification plumbing
\* The part of the state a call threads through its steps: the batch slots, the
\* scheduler queue, the committed guards of each batch, the cell's borrow flag
\* the events emitted, and whether the call is still running (FALSE: a borrow
\* conflict aborted it).
Ctx ==
  [bm |-> batched_modifies, q |-> queue, bt |-> batch, bw |-> borrow, em |-> emitted,
   ok |-> TRUE]

\* What is recorded of a committed guard: the writer and accessor it came from,
\* whether it is the guard handed to the caller or the origin's guard a
\* SplittedWriter commits, and the tag and path it was dropped with.
Commit(ref) ==
  [src |-> ref.src, kind |-> ref.kind, role |-> ref.role,
   path |-> ref.path, effect |-> ref.modify_effect]

\* AppCtx::data_changed(path, info): one more request for the scheduler.
AppCtx_data_changed(q, path, info) == Append(q, [path |-> path, info |-> info])

\* Drop for WriteRef had it stored its tag over the slot instead of OR-ing.
WriteRef_drop_Overwrite(ref, ctx) ==
  LET c == [ctx EXCEPT !.bw = @ + 1] IN
  IF ~ref.modified THEN c
  ELSE IF c.bm[ref.info] = NoEffect /\ ref.modify_effect # NoEffect
    THEN [c EXCEPT !.bm[ref.info] = ref.modify_effect,
                   !.q = AppCtx_data_changed(@, ref.path, ref.info),
                   !.bt[ref.info] = @ \cup {Commit(ref)}]
    ELSE [c EXCEPT !.bm[ref.info] = ref.modify_effect,
                   !.bt[ref.info] = @ \cup {Commit(ref)}]

\* Drop for WriteRef had it called the hook for every mutated guard.
WriteRef_drop_HookAlways(ref, ctx) ==
  LET c == [ctx EXCEPT !.bw = @ + 1] IN
  IF ~ref.modified THEN c
  ELSE [c EXCEPT !.bm[ref.info] = ref.modify_effect \cup @,
                 !.q = AppCtx_data_changed(@, ref.path, ref.info),
                 !.bt[ref.info] = @ \cup {Commit(ref)}]

\* Drop for WriteRef had it never called the hook.
WriteRef_drop_NoHook(ref, ctx) ==
  LET c == [ctx EXCEPT !.bw = @ + 1] IN
  IF ~ref.modified THEN c
  ELSE [c EXCEPT !.bm[ref.info] = ref.modify_effect \cup @,
                 !.bt[ref.info] = @ \cup {Commit(ref)}]

\* Drop for WriteRef had it emitted on the notifier itself.
WriteRef_drop_Synchronous(ref, ctx) ==
  LET c == [ctx EXCEPT !.bw = @ + 1] IN
  IF ~ref.modified THEN c
  ELSE [c EXCEPT !.em = << [info |-> ref.info, effect |-> ref.modify_effect,
                            path |-> ref.path] >>]

\* Drop for WriteRef had it not returned early for an unmodified guard.
WriteRef_drop_Unconditional(ref, ctx) ==
  LET c == [ctx EXCEPT !.bw = @ + 1] IN
  IF c.bm[ref.info] = NoEffect /\ ref.modify_effect # NoEffect
    THEN [c EXCEPT !.bm[ref.info] = ref.modify_effect,
                   !.q = AppCtx_data_changed(@, ref.path, ref.info),
                   !.bt[ref.info] = @ \cup {Commit(ref)}]
    ELSE [c EXCEPT !.bm[ref.info] = ref.modify_effect \cup @,
                   !.bt[ref.info] = @ \cup {Commit(ref)}]

\* impl Drop for WriteRef, followed by the release of the guard's borrow.
WriteRef_drop(ref, ctx) ==
  LET c == [ctx EXCEPT !.bw = @ + 1] IN
  IF ~ref.modified THEN c
  ELSE IF c.bm[ref.info] = NoEffect /\ ref.modify_effect # NoEffect
    THEN [c EXCEPT !.bm[ref.info] = ref.modify_effect,
                   !.q = AppCtx_data_changed(@, ref.path, ref.info),
                   !.bt[ref.info] = @ \cup {Commit(ref)}]
    ELSE [c EXCEPT !.bm[ref.info] = ref.modify_effect \cup @,
                   !.bt[ref.info] = @ \cup {Commit(ref)}]

\* ValueMutRef::clone / `borrow: value.borrow.clone()`: one more holder of the
\* exclusive borrow.
BorrowRefMut_clone(ctx) == [ctx EXCEPT !.bw = @ - 1]

\* silent / shallow had they changed the tag of the guard in place.
WriteRef_retag_InPlace(ref, ctx, effect, kind) ==
  [ctx |-> ctx, ref |-> [ref EXCEPT !.modify_effect = effect, !.kind = kind]]

\* WriteRef::silent / shallow: a new guard with the new tag, then `self` drops.
WriteRef_retag(ref, ctx, effect, kind) ==
  [ctx |-> WriteRef_drop(ref, BorrowRefMut_clone(ctx)),
   ref |-> [ref EXCEPT !.modify_effect = effect, !.modified = FALSE, !.kind = kind]]

WriteRef_silent(ref, ctx)  == WriteRef_retag(ref, ctx, DATA, "silent")
WriteRef_shallow(ref, ctx) == WriteRef_retag(ref, ctx, FRAMEWORK, "shallow")

\* part_map had it handed back the reference it was given.
ComposeProj_Keep(p, q) == p

\* part_map(value).inner: the field of the struct, or the field already taken.
ComposeProj(p, q) == IF p = "whole" THEN q ELSE p

\* WriteRef::map had it moved the borrow instead of cloning it.
WriteRef_map_NoBorrowClone(orig, ctx, proj) ==
  [ctx |-> WriteRef_drop(orig, ctx),
   ref |-> [orig EXCEPT !.modified = FALSE, !.proj = ComposeProj(@, proj)]]

\* WriteRef::map had part_map gone through the guard's own deref_mut.
WriteRef_map_ThroughDerefMut(orig, ctx, proj) ==
  [ctx |-> WriteRef_drop([orig EXCEPT !.modified = TRUE], BorrowRefMut_clone(ctx)),
   ref |-> [orig EXCEPT !.modified = FALSE, !.proj = ComposeProj(@, proj)]]

\* WriteRef::map(orig, part_map): the projected guard, then `orig` drops.
WriteRef_map(orig, ctx, proj) ==
  [ctx |-> WriteRef_drop(orig, BorrowRefMut_clone(ctx)),
   ref |-> [orig EXCEPT !.modified = FALSE, !.proj = ComposeProj(@, proj)]]

\* filter_map had it moved the borrow into the new guard instead of cloning it.
WriteRef_filter_map_NoBorrowClone(orig, ctx, res) ==
  IF res = "None"
    THEN [ok |-> FALSE, ctx |-> ctx, ref |-> orig]
    ELSE [ok |-> TRUE, ctx |-> WriteRef_drop(orig, ctx),
          ref |-> [orig EXCEPT !.modified = FALSE, !.proj = ComposeProj(@, res)]]

\* filter_map had it consumed the guard whatever part_map gave.
WriteRef_filter_map_Consume(orig, ctx, res) ==
  [ok |-> res # "None", ctx |-> WriteRef_drop(orig, BorrowRefMut_clone(ctx)),
   ref |-> [orig EXCEPT !.modified = FALSE,
                        !.proj = IF res = "None" THEN @ ELSE ComposeProj(@, res)]]

\* WriteRef::filter_map(orig, part_map): part_map gave None (Err(orig), the
\* guard handed back as it is) or Some(part) (the projected guard, then `orig`
\* drops).
WriteRef_filter_map(orig, ctx, res) ==
  IF res = "None"
    THEN [ok |-> FALSE, ctx |-> ctx, ref |-> orig]
    ELSE [ok |-> TRUE, ctx |-> WriteRef_drop(orig, BorrowRefMut_clone(ctx)),
          ref |-> [orig EXCEPT !.modified = FALSE, !.proj = ComposeProj(@, res)]]

\* forget_modifies had it only read the flag.
WriteRef_forget_modifies_Keep(ref) == [ret |-> ref.modified, ref |-> ref]

\* WriteRef::forget_modifies: std::mem::replace(&mut self.modified, false)
WriteRef_forget_modifies(ref) ==
  [ret |-> ref.modified, ref |-> [ref EXCEPT !.modified = FALSE]]

\* ---------------------------------------------------------------- StateCell
\* StateCell::write: fails on any outstanding borrow, else marks exclusive.
StateCell_write(ctx) ==
  IF ctx.bw # 0 THEN [ctx EXCEPT !.ok = FALSE] ELSE [ctx EXCEPT !.bw = -1]

\* StateCell::read: fails on an exclusive borrow, else one more shared borrow.
StateCell_read(ctx) ==
  IF ctx.bw < 0 THEN [ctx EXCEPT !.ok = FALSE] ELSE [ctx EXCEPT !.bw = @ + 1]

KindEffect(kind) ==
  CASE kind = "write"   -> BOTH
    [] kind = "silent"  -> DATA
    [] kind = "shallow" -> FRAMEWORK

\* Stateful::write / silent / shallow: a guard on the cell, tagged by the
\* accessor, on the root WriterInfo, with the root (empty) path.
Stateful_write(tag, ctx) ==
  [ctx |-> StateCell_write(ctx),
   ref |-> [h |-> tag.h, src |-> tag.src, kind |-> tag.kind, role |-> "guard",
            info |-> 0, modify_effect |-> KindEffect(tag.kind), modified |-> FALSE,
            path |-> << >>, proj |-> "whole"]]

\* split_ref had it handed the caller a guard already marked modified.
SplittedWriter_split_ref_ReturnsMarked(layer, orig, ctx) ==
  LET marked == [orig EXCEPT !.modify_effect = @ \ FRAMEWORK, !.modified = TRUE,
                             !.role = "origin"]
  IN [ctx |-> WriteRef_drop(marked, BorrowRefMut_clone(ctx)),
      ref |-> [orig EXCEPT !.info = layer.info, !.modified = TRUE, !.path = << >>,
                           !.proj = ComposeProj(@, layer.proj)],
      assert |-> ~orig.modified]

\* split_ref had it left FRAMEWORK in the origin guard's tag.
SplittedWriter_split_ref_KeepFramework(layer, orig, ctx) ==
  LET marked == [orig EXCEPT !.modified = TRUE, !.role = "origin"]
  IN [ctx |-> WriteRef_drop(marked, BorrowRefMut_clone(ctx)),
      ref |-> [orig EXCEPT !.info = layer.info, !.modified = FALSE, !.path = << >>,
                           !.proj = ComposeProj(@, layer.proj)],
      assert |-> ~orig.modified]

\* SplittedWriter::split_ref: the origin's guard is committed as a DATA-only
\* (silent) write on the origin's scope; the returned guard is on the split's
\* own WriterInfo with the accessor's tag.
SplittedWriter_split_ref(layer, orig, ctx) ==
  LET marked == [orig EXCEPT !.modify_effect = @ \ FRAMEWORK, !.modified = TRUE,
                             !.role = "origin"]
  IN [ctx |-> WriteRef_drop(marked, BorrowRefMut_clone(ctx)),
      ref |-> [orig EXCEPT !.info = layer.info, !.modified = FALSE, !.path = << >>,
                           !.proj = ComposeProj(@, layer.proj)],
      assert |-> ~orig.modified]

\* write() / silent() / shallow() of a writer, by variant.
RECURSIVE StateWriter_write(_, _, _)
\* PartWriter::write had it not set `w.path = &self.path`.
PartWriter_write_NoPath(L, tag, ctx) ==
  LET o == StateWriter_write(Origin(L), tag, ctx) IN
  IF ~o.ctx.ok THEN o ELSE WriteRef_map(o.ref, o.ctx, Top(L).proj)

\* PartWriter::write: the origin's guard mapped by part_map, with the part's path.
PartWriter_write(L, tag, ctx) ==
  LET o == StateWriter_write(Origin(L), tag, ctx) IN
  IF ~o.ctx.ok THEN o
  ELSE LET m == WriteRef_map(o.ref, o.ctx, Top(L).proj)
       IN [ctx |-> m.ctx, ref |-> [m.ref EXCEPT !.path = Top(L).path]]

SplittedWriter_write(L, tag, ctx) ==
  LET o == StateWriter_write(Origin(L), tag, ctx) IN
  IF ~o.ctx.ok THEN o
  ELSE LET s == SplittedWriter_split_ref(Top(L), o.ref, o.ctx)
       IN [ctx |-> s.ctx, ref |-> s.ref]

StateWriter_write(L, tag, ctx) ==
  CASE Top(L).k = "Stateful" -> Stateful_write(tag, ctx)
    [] Top(L).k = "Writer"   -> StateWriter_write(Origin(L), tag, ctx)
    [] Top(L).k = "Part"     -> PartWriter_write(L, tag, ctx)
    [] Top(L).k = "Split"    -> SplittedWriter_write(L, tag, ctx)
    [] Top(L).k = "Box"      -> StateWriter_write(Origin(L), tag, ctx)

\* ------------------------------------------------------------------ readers
\* read() of a handle, by variant: every variant ends in StateCell::read of the
\* one cell and keeps that borrow for the life of the ReadRef.
RECURSIVE StateReader_read(_, _)
\* boxed_read had it not gone through origin.read().
PartWriter_boxed_read_NoBorrow(L, ctx) == ctx

PartWriter_boxed_read(L, ctx) == StateReader_read(Origin(L), ctx)

SplittedWriter_read(L, ctx) == StateReader_read(Origin(L), ctx)

PartReader_read(L, ctx) == StateReader_read(Origin(L), ctx)

StateReader_read(L, ctx) ==
  CASE Top(L).k = "Stateful"   -> StateCell_read(ctx)
    [] Top(L).k = "Reader"     -> StateCell_read(ctx)
    [] Top(L).k = "Writer"     -> StateReader_read(Origin(L), ctx)
    [] Top(L).k = "Part"       -> PartWriter_boxed_read(L, ctx)
    [] Top(L).k = "Split"      -> SplittedWriter_read(L, ctx)
    [] Top(L).k = "PartReader" -> PartReader_read(L, ctx)
    [] Top(L).k = "Watcher"    -> StateReader_read(Origin(L), ctx)
    [] Top(L).k = "Box"        -> StateReader_read(Origin(L), ctx)

\* What a guard with projection proj shows of the cell's value.
View(v, proj) == IF proj = "whole" THEN << v.a, v.b >> ELSE << v[proj] >>

\* ------------------------------------------------------------ writer counts
WriterInfo_inc_writer(wc, i) == [wc EXCEPT ![i] = @ + 1]
WriterInfo_dec_writer(wc, i) == [wc EXCEPT ![i] = @ - 1]

\* clone_writer of a chain: every Stateful and every SplittedWriter in it counts
\* one more writer on its WriterInfo.
RECURSIVE CloneWriterCounts(_, _)
\* SplittedWriter::clone_writer had it not called `self.info.inc_writer()`.
CloneWriterCounts_NoSplitInc(L, wc) ==
  IF L = << >> THEN wc
  ELSE LET o == CloneWriterCounts(Origin(L), wc) IN
       CASE Top(L).k = "Stateful" -> WriterInfo_inc_writer(o, 0)
         [] OTHER                 -> o

CloneWriterCounts(L, wc) ==
  IF L = << >> THEN wc
  ELSE LET o == CloneWriterCounts(Origin(L), wc) IN
       CASE Top(L).k = "Stateful" -> WriterInfo_inc_writer(o, 0)
         [] Top(L).k = "Split"    -> WriterInfo_inc_writer(o, Top(L).info)
         [] OTHER                 -> o

\* Dropping a chain drops every layer: Drop for SplittedWriter and for Stateful.
RECURSIVE DropCounts(_, _)
DropCounts(L, wc) ==
  IF L = << >> THEN wc
  ELSE LET o == DropCounts(Origin(L), wc) IN
       CASE Top(L).k = "Stateful" -> WriterInfo_dec_writer(o, 0)
         [] Top(L).k = "Split"    -> WriterInfo_dec_writer(o, Top(L).info)
         [] OTHER                 -> o

\* clone_reader of a chain, by variant: [layers, wc].  Writer::clone_reader is
\* clone_writer ("todo: clone only reader").
RECURSIVE StateReader_clone_reader(_, _)
StateReader_clone_reader(L, wc) ==
  CASE Top(L).k = "Stateful" -> [layers |-> << ReaderL >>, wc |-> wc]
    [] Top(L).k = "Reader"   -> [layers |-> L, wc |-> wc]
    [] Top(L).k = "Writer"   -> [layers |-> L, wc |-> CloneWriterCounts(L, wc)]
    [] Top(L).k = "Watcher"  -> StateReader_clone_reader(Origin(L), wc)
    [] Top(L).k = "Box"      -> StateReader_clone_reader(Origin(L), wc)
    [] OTHER ->
         LET o == StateReader_clone_reader(Origin(L), wc)
         IN [layers |-> Append(o.layers, PartReaderL(Top(L).proj)), wc |-> o.wc]

\* scope_path of a writer, by variant: a PartWriter's own path, the boxed
\* writer's path, and the wildcard (empty) path of a Stateful and of a Writer.
RECURSIVE StateWriter_scope_path(_)
StateWriter_scope_path(L) ==
  CASE Top(L).k = "Part" -> Top(L).path
    [] Top(L).k = "Box"  -> StateWriter_scope_path(Origin(L))
    [] OTHER             -> << >>

\* ------------------------------------------------------------------ streams
IsPrefix(p, q) == Len(p) <= Len(q) /\ SubSeq(q, 1, Len(p)) = p

\* ModifyInfo::path_matches
ModifyInfo_path_matches(ev, path, include_partial) ==
  IF include_partial THEN IsPrefix(path, ev.path) ELSE ev.path = path

\* The filter Stateful::raw_modifies puts on its notifier's stream.
Stateful_raw_modifies(layer, ev) == ModifyInfo_path_matches(ev, << >>, layer.inc)

\* PartWriter::raw_modifies had it returned the notifier's stream unfiltered.
PartWriter_raw_modifies_Unfiltered(layer, ev) == TRUE

\* PartWriter::raw_modifies had a wildcard part's stream carried nothing.
PartWriter_raw_modifies_NamedOnly(layer, ev) ==
  IF layer.path # << >>
    THEN ModifyInfo_path_matches(ev, layer.path, layer.inc)
    ELSE FALSE

\* The filter PartWriter::raw_modifies puts on its notifier's stream.
PartWriter_raw_modifies(layer, ev) ==
  IF layer.path # << >>
    THEN ModifyInfo_path_matches(ev, layer.path, layer.inc)
    ELSE TRUE

\* Does the stream raw_modifies() returned for a writer with layers L let ev through?
RECURSIVE StateWatcher_raw_modifies(_, _)
StateWatcher_raw_modifies(L, ev) ==
  CASE Top(L).k = "Stateful" -> Stateful_raw_modifies(Top(L), ev)
    [] Top(L).k = "Part"     -> PartWriter_raw_modifies(Top(L), ev)
    [] Top(L).k = "Split"    -> TRUE
    [] Top(L).k = "Writer"   -> StateWatcher_raw_modifies(Origin(L), ev)
    [] Top(L).k = "Box"      -> StateWatcher_raw_modifies(Origin(L), ev)
    [] Top(L).k = "Watcher"  -> StateWatcher_raw_modifies(Top(L).stream, ev)

\* SplittedWriter::raw_modifies had it subscribed to its origin's notifier.
SplittedWriter_raw_modifies_OriginNotifier(L) == ScopeInfo(Origin(L))

\* The WriterInfo whose notifier raw_modifies() of the writer subscribes to.
SplittedWriter_raw_modifies(L) == Top(L).info

RECURSIVE NotifierOf(_)
NotifierOf(L) ==
  CASE Top(L).k = "Stateful" -> 0
    [] Top(L).k = "Part"     -> ScopeInfo(L)
    [] Top(L).k = "Split"    -> SplittedWriter_raw_modifies(L)
    [] Top(L).k = "Writer"   -> NotifierOf(Origin(L))
    [] Top(L).k = "Box"      -> NotifierOf(Origin(L))
    [] Top(L).k = "Watcher"  -> NotifierOf(Top(L).stream)

\* modifies had it returned the raw stream.
StateWatcher_modifies_All(ev) == TRUE

\* StateWatcher::modifies: the raw stream filtered to events that contain DATA.
StateWatcher_modifies(ev) == DATA \subseteq ev.effect

\* Does a subscription receive the event ev emitted on WriterInfo info's notifier?
Receives(sub, info, ev) ==
  /\ NotifierOf(sub.src) = info
  /\ StateWatcher_raw_modifies(sub.src, ev)
  /\ sub.data_only => StateWatcher_modifies(ev)

\* What a call of raw_modifies() does to the cell, by variant:
\* PartWriter::raw_modifies reaches the notifier through `self.write()`, a
\* guard that drops at the end of the statement; the other variants hold
\* their notifier.
RECURSIVE StateWatcher_raw_modifies_call(_, _)
PartWriter_raw_modifies_call(L, ctx) ==
  LET w == PartWriter_write(L, [h |-> 0, src |-> L, kind |-> "write"], ctx)
  IN IF ~w.ctx.ok THEN w.ctx ELSE WriteRef_drop(w.ref, w.ctx)

StateWatcher_raw_modifies_call(L, ctx) ==
  CASE Top(L).k = "Part"              -> PartWriter_raw_modifies_call(L, ctx)
    [] Top(L).k \in {"Writer", "Box"} -> StateWatcher_raw_modifies_call(Origin(L), ctx)
    [] OTHER                          -> ctx

\* ------------------------------------------------------------------ watchers
\* raw_modifies() as a value: the writer whose stream it is.  A Watcher hands
\* out clones of the stream it holds.
StateWatcher_stream(L) == IF Top(L).k = "Watcher" THEN Top(L).stream ELSE L

\* Watcher::new(reader, modifies_observable)
Watcher_new(reader, stream) == Append(reader, WatcherL(stream))

\* clone_watcher: Watcher::new(self.clone_reader(), self.raw_modifies())
StateWatcher_clone_watcher(L, wc) ==
  LET r == StateReader_clone_reader(L, wc)
  IN [layers |-> Watcher_new(r.layers, StateWatcher_stream(L)), wc |-> r.wc]

\* part_watcher had it taken the root's stream instead of self.raw_modifies().
StateWatcher_part_watcher_RootStream(L, wc, f) ==
  LET r == StateReader_clone_reader(L, wc)
      proj == IF ProjOf(r.layers) = "whole" THEN f ELSE "whole"
  IN [layers |-> Watcher_new(Append(r.layers, PartReaderL(proj)), << L[1] >>),
      wc |-> r.wc]

\* part_watcher(map): Watcher::new(self.part_reader(map), self.raw_modifies())
StateWatcher_part_watcher(L, wc, f) ==
  LET r == StateReader_clone_reader(L, wc)
      proj == IF ProjOf(r.layers) = "whole" THEN f ELSE "whole"
  IN [layers |-> Watcher_new(Append(r.layers, PartReaderL(proj)), StateWatcher_stream(L)),
      wc |-> r.wc]

\* ----------------------------------------------------------- try_into_value
\* try_into_value of a handle, by variant, given the cell's reference count:
\* [ok, layers, wc]; layers is what is handed back on failure.
RECURSIVE StateReader_try_into_value(_, _, _)
\* Reader::try_into_value had it not looked at the reference count.
Reader_try_into_value_Unchecked(L, rc, wc) == [ok |-> TRUE, layers |-> NoHandle, wc |-> wc]

\* Reader::try_into_value: `if self.0.ref_count() == 1`.
Reader_try_into_value(L, rc, wc) ==
  IF rc = 1 THEN [ok |-> TRUE, layers |-> NoHandle, wc |-> wc]
            ELSE [ok |-> FALSE, layers |-> L, wc |-> wc]

\* Stateful::try_into_value: the sole handle of the cell gives the value.
Stateful_try_into_value(L, rc, wc) ==
  IF rc = 1 THEN [ok |-> TRUE, layers |-> NoHandle, wc |-> WriterInfo_dec_writer(wc, 0)]
            ELSE [ok |-> FALSE, layers |-> L, wc |-> wc]

\* Watcher::try_into_value: the reader's, and on failure the watcher rebuilt
\* from the reader handed back and the stream it held.
Watcher_try_into_value(L, rc, wc) ==
  LET r == StateReader_try_into_value(Origin(L), rc, wc) IN
  IF r.ok THEN r ELSE [r EXCEPT !.layers = Append(@, WatcherL(Top(L).stream))]

\* Writer::try_into_value: the Stateful's; a Part variant is handed back.
Writer_try_into_value(L, rc, wc) ==
  IF Top(Origin(L)).k = "Stateful"
    THEN LET r == Stateful_try_into_value(Origin(L), rc, wc)
         IN IF r.ok THEN r ELSE [r EXCEPT !.layers = Append(@, Top(L))]
    ELSE [ok |-> FALSE, layers |-> L, wc |-> wc]

StateReader_try_into_value(L, rc, wc) ==
  CASE Top(L).k = "Reader"   -> Reader_try_into_value(L, rc, wc)
    [] Top(L).k = "Stateful" -> Stateful_try_into_value(L, rc, wc)
    [] Top(L).k = "Watcher"  -> Watcher_try_into_value(L, rc, wc)
    [] Top(L).k = "Writer"   -> Writer_try_into_value(L, rc, wc)
    [] OTHER                 -> [ok |-> FALSE, layers |-> L, wc |-> wc]

\* ------------------------------------------------------------- into_reader
\* into_reader of a writer, by variant: [ok, layers, wc].
RECURSIVE StateWatcher_into_reader(_, _)
Stateful_into_reader(L, wc) ==
  IF wc[0] = 1
    THEN [ok |-> TRUE, layers |-> << ReaderL >>, wc |-> WriterInfo_dec_writer(wc, 0)]
    ELSE [ok |-> FALSE, layers |-> L, wc |-> wc]

Writer_into_reader(L, wc) == [ok |-> FALSE, layers |-> L, wc |-> wc]

PartWriter_into_reader(L, wc) ==
  LET o == StateWatcher_into_reader(Origin(L), wc) IN
  IF o.ok
    THEN [ok |-> TRUE, layers |-> Append(o.layers, PartReaderL(Top(L).proj)), wc |-> o.wc]
    ELSE [ok |-> FALSE, layers |-> Append(o.layers, Top(L)), wc |-> o.wc]

SplittedWriter_into_reader(L, wc) ==
  IF wc[Top(L).info] = 1
    THEN LET r == StateReader_clone_reader(L, wc)
         IN [ok |-> TRUE, layers |-> r.layers, wc |-> DropCounts(L, r.wc)]
    ELSE [ok |-> FALSE, layers |-> L, wc |-> wc]

StateWatcher_into_reader(L, wc) ==
  CASE Top(L).k = "Stateful" -> Stateful_into_reader(L, wc)
    [] Top(L).k = "Writer"   -> Writer_into_reader(L, wc)
    [] Top(L).k = "Part"     -> PartWriter_into_reader(L, wc)
    [] Top(L).k = "Split"    -> SplittedWriter_into_reader(L, wc)
    [] Top(L).k = "Box"      -> [ok |-> FALSE, layers |-> L, wc |-> wc]

\* include_partial_writers(include) of a writer, by variant.
RECURSIVE StateWriter_include_partial_writers(_, _)
StateWriter_include_partial_writers(L, include) ==
  CASE Top(L).k = "Writer" ->
         Append(StateWriter_include_partial_writers(Origin(L), include), Top(L))
    [] OTHER -> SetTop(L, [Top(L) EXCEPT !.inc = include])

\* -------------------------------------------------------------------- state
\* The last call, unless it only took or dropped a guard or a handle: the
\* handle it was made on (slot and layers), its outcome, the value a read saw
\* or a dereference stored, a number the call met (the borrow flag of an
\* aborted call, the writer count into_reader saw, the WriterInfo of a guard
\* or of a scheduler run) and the commits the call made or the run drained.
NoLast ==
  [op |-> "none", ok |-> TRUE, h |-> 0, src |-> << >>, n |-> 0, val |-> << >>, batch |-> {}]

\* The writer counts of a family of live handles.
RECURSIVE CountsOf(_, _)
CountsOf(hs, n) ==
  IF n = 0 THEN [i \in Infos |-> 0]
  ELSE LET wc == CountsOf(hs, n - 1)
           L == hs[n]
       IN [i \in Infos |->
             wc[i] + Cardinality({j \in 1 .. Len(L) :
                                    \/ i = 0 /\ L[j].k = "Stateful"
                                    \/ L[j].k = "Split" /\ L[j].info = i})]

\* Handle families a program builds before it starts writing: a root writer
\* (Stateful::new(..).include_partial_writers(inc), possibly held as a Writer)
\* and writers and readers derived from it.
Root(inc, erased) ==
  IF erased THEN << StatefulL(inc), WriterL >> ELSE << StatefulL(inc) >>

Families ==
  \* o, o.part_writer("a", ..), o.part_writer("b", ..)
  { << Root(inc, er),
       Append(Root(inc, er), PartL(<< "a" >>, FALSE, "a")),
       Append(Root(inc, er), PartL(<< "b" >>, FALSE, "b")) >> :
       inc \in BOOLEAN, er \in BOOLEAN }
  \cup
  \* o, o.part_writer(PartialId::any(), |v| &mut v.b), o.part_writer("a", ..)
  { << Root(inc, er),
       Append(Root(inc, er), PartL(<< >>, FALSE, "b")),
       Append(Root(inc, er), PartL(<< "a" >>, FALSE, "a")) >> : inc \in {FALSE}, er \in {TRUE} }
  \cup
  \* o, split_a, split_b
  { << Root(inc, FALSE),
       Append(Root(inc, FALSE), SplitL(1, "a")),
       Append(Root(inc, FALSE), SplitL(2, "b")) >> : inc \in {FALSE} }

\* o with a reader, a part reader and a part writer of it; o held as a Writer
\* with a clone and a split writer of it.
CellFamilies ==
  { << Root(FALSE, FALSE), << ReaderL >>, << ReaderL, PartReaderL("a") >>,
       Append(Root(FALSE, FALSE), PartL(<< "b" >>, FALSE, "b")) >>,
    << Root(FALSE, TRUE), Root(FALSE, TRUE),
       Append(Root(FALSE, TRUE), SplitL(1, "a")) >> }

\* Every writer of the family has a raw_modifies() and a modifies() subscriber.
RECURSIVE SubsOf(_, _)
SubsOf(hs, n) ==
  IF n = 0 THEN << >>
  ELSE IF IsWriter(hs[n])
    THEN SubsOf(hs, n - 1) \o << [src |-> hs[n], data_only |-> FALSE],
                                 [src |-> hs[n], data_only |-> TRUE] >>
    ELSE SubsOf(hs, n - 1)

InitCell ==
  /\ value = [a |-> 0, b |-> 0]
  /\ borrow = 0
  /\ wrefs = << >>
  /\ batched_modifies = [i \in Infos |-> NoEffect]
  /\ queue = << >>
  /\ batch = [i \in Infos |-> {}]
  /\ emitted = << >>
  /\ last = NoLast
  /\ panicked = FALSE

InitFamily(families) ==
  /\ InitCell
  /\ handles \in families
  /\ rrefs = [h \in DOMAIN handles |-> 0]
  /\ writer_count = CountsOf(handles, Len(handles))
  /\ infos = MaxSplits
  /\ subs = SubsOf(handles, Len(handles))

Init == InitFamily(Families)

InitBorrow == InitFamily(CellFamilies)

\* o with a part writer of it; o with a split writer of it.
GuardFamilies ==
  { << Root(FALSE, FALSE), Append(Root(FALSE, FALSE), PartL(<< "a" >>, FALSE, "a")) >>,
    << Root(FALSE, FALSE), Append(Root(FALSE, FALSE), SplitL(1, "a")) >> }

InitGuard == InitFamily(GuardFamilies)

\* Stateful::new(value): one writer, nothing derived yet.
InitHandles ==
  /\ InitCell
  /\ handles = [h \in 1 .. MaxHandles |-> IF h = 1 THEN << StatefulL(FALSE) >> ELSE NoHandle]
  /\ rrefs = [h \in 1 .. MaxHandles |-> 0]
  /\ writer_count = [i \in Infos |-> IF i = 0 THEN 1 ELSE 0]
  /\ infos = 0
  /\ subs = << >>

HasFree == \E h \in Slots : handles[h] = NoHandle
Free == CHOOSE h \in Slots : handles[h] = NoHandle /\ \A g \in 1 .. h - 1 : handles[g] # NoHandle

RECURSIVE SumTo(_, _)
SumTo(f, n) == IF n = 0 THEN 0 ELSE f[n] + SumTo(f, n - 1)
NumReads == SumTo(rrefs, Len(rrefs))

\* The program runs until a borrow conflict aborts it.
Running == ~panicked

\* No guard taken through handle h is alive: h may be moved or dropped.
Unborrowed(h) == rrefs[h] = 0 /\ \A g \in 1 .. Len(wrefs) : wrefs[g].h # h

Room(c) ==
  /\ Cardinality(UNION {c.bt[i] : i \in Infos}) <= MaxBatch
  /\ Len(c.q) <= MaxQueue

SetCtx(c) ==
  /\ batched_modifies' = c.bm
  /\ queue' = c.q
  /\ batch' = c.bt
  /\ borrow' = c.bw
  /\ emitted' = c.em

\* A borrow conflict aborts the process: nothing of its state is left, and the
\* model keeps only the call that aborted and the borrow flag it met.
Abort(op, h) ==
  /\ panicked' = TRUE
  /\ last' = [NoLast EXCEPT !.op = op, !.h = h, !.ok = FALSE, !.src = handles[h],
                            !.n = borrow]
  /\ value' = [a |-> 0, b |-> 0]
  /\ borrow' = 0
  /\ wrefs' = << >>
  /\ rrefs' = [g \in DOMAIN rrefs |-> 0]
  /\ batched_modifies' = [i \in Infos |-> NoEffect]
  /\ queue' = << >>
  /\ emitted' = << >>
  /\ batch' = [i \in Infos |-> {}]
  /\ UNCHANGED << handles, writer_count, infos, subs >>

PartialIds == {<< >>, << "a" >>, << "b" >>}
PartProj(L, id) == IF ProjOf(L) = "whole" /\ id # << >> THEN id[1] ELSE "whole"

\* ------------------------------------------------------------------ handles
\* h.clone_writer()
CloneWriter(h) ==
  /\ Running /\ IsWriter(handles[h]) /\ HasFree
  /\ handles' = [handles EXCEPT ![Free] = handles[h]]
  /\ writer_count' = CloneWriterCounts(handles[h], writer_count)
  /\ last' = NoLast
  /\ UNCHANGED << value, borrow, wrefs, rrefs, batched_modifies, infos, queue, subs, emitted,
                  batch, panicked >>

\* part_writer had the child taken over its parent's include_partial.
StateWriter_part_writer_Inherit(L, id) ==
  Append(L, PartL(StateWriter_scope_path(L) \o id, Top(L).inc, PartProj(L, id)))

\* part_writer(id, part_map): the path is the writer's scope path and, unless
\* the id is the wildcard, the id; include_partial starts false.
StateWriter_part_writer(L, id) ==
  Append(L, PartL(StateWriter_scope_path(L) \o id, FALSE, PartProj(L, id)))

\* h.part_writer(id, part_map)
PartWriterOf(h, id) ==
  /\ Running /\ IsWriter(handles[h]) /\ HasFree
  /\ Depth(handles[h]) < MaxDepth
  /\ handles' = [handles EXCEPT ![Free] = StateWriter_part_writer(handles[h], id)]
  /\ writer_count' = CloneWriterCounts(handles[h], writer_count)
  /\ last' = NoLast
  /\ UNCHANGED << value, borrow, wrefs, rrefs, batched_modifies, infos, queue, subs, emitted,
                  batch, panicked >>

\* SplittedWriter::new(h.clone_writer(), splitter)
SplitWriterOf(h, f) ==
  /\ Running /\ IsWriter(handles[h]) /\ HasFree
  /\ Depth(handles[h]) < MaxDepth
  /\ infos < MaxSplits
  /\ LET L == handles[h]
         proj == IF ProjOf(L) = "whole" THEN f ELSE "whole"
     IN handles' = [handles EXCEPT ![Free] = Append(L, SplitL(infos + 1, proj))]
  /\ infos' = infos + 1
  /\ writer_count' = [CloneWriterCounts(handles[h], writer_count) EXCEPT ![infos + 1] = 1]
  /\ last' = NoLast
  /\ UNCHANGED << value, borrow, wrefs, rrefs, batched_modifies, queue, subs, emitted, batch,
                  panicked >>

\* Writer::stateful(h) / Writer::part(h)
IntoWriter(h) ==
  /\ Running /\ handles[h] # NoHandle /\ Unborrowed(h)
  /\ Top(handles[h]).k \in {"Stateful", "Part"}
  /\ handles' = [handles EXCEPT ![h] = Append(@, WriterL)]
  /\ last' = NoLast
  /\ UNCHANGED << value, borrow, wrefs, rrefs, batched_modifies, writer_count, infos,
                  queue, subs, emitted, batch, panicked >>

\* include_partial_writers had the streams already made read the writer's
\* setting instead of a copy of it.
IncludePartialWriters_Shared(h, include) ==
  /\ Running /\ handles[h] # NoHandle /\ Unborrowed(h)
  /\ Top(handles[h]).k \in {"Stateful", "Part", "Writer", "Box"}
  /\ IF Top(handles[h]).k = "Box" THEN Abort("include_partial_writers", h)
     ELSE /\ handles' = [handles EXCEPT ![h] = StateWriter_include_partial_writers(@, include)]
          /\ subs' = [s \in DOMAIN subs |->
                        IF subs[s].src = handles[h]
                          THEN [subs[s] EXCEPT
                                  !.src = StateWriter_include_partial_writers(@, include)]
                          ELSE subs[s]]
          /\ last' = NoLast
          /\ UNCHANGED << value, borrow, wrefs, rrefs, batched_modifies, writer_count, infos,
                          queue, emitted, batch, panicked >>

\* h.include_partial_writers(include); Box<dyn StateWriter>'s is
\* `unimplemented!()`.
IncludePartialWriters(h, include) ==
  /\ Running /\ handles[h] # NoHandle /\ Unborrowed(h)
  /\ Top(handles[h]).k \in {"Stateful", "Part", "Writer", "Box"}
  /\ IF Top(handles[h]).k = "Box" THEN Abort("include_partial_writers", h)
     ELSE /\ handles' = [handles EXCEPT ![h] = StateWriter_include_partial_writers(@, include)]
          /\ last' = NoLast
          /\ UNCHANGED << value, borrow, wrefs, rrefs, batched_modifies, writer_count, infos,
                          queue, subs, emitted, batch, panicked >>

\* h.raw_modifies() / h.modifies(): the stream is made, nothing subscribes yet.
RawModifies(h, op) ==
  /\ Running /\ handles[h] # NoHandle
  /\ IsWriter(handles[h]) \/ Top(handles[h]).k = "Watcher"
  /\ LET c == StateWatcher_raw_modifies_call(handles[h], Ctx)
     IN IF ~c.ok THEN Abort(op, h)
        ELSE /\ Room(c) /\ SetCtx(c)
             /\ last' = [NoLast EXCEPT !.op = op, !.h = h, !.src = handles[h]]
             /\ UNCHANGED << value, handles, wrefs, rrefs, writer_count, infos, subs,
                             panicked >>

\* h.raw_modifies().subscribe(..) / h.modifies().subscribe(..): the stream
\* keeps the path and the include_partial setting h has at the call.
Subscribe(h, data_only) ==
  /\ Running /\ IsWriter(handles[h])
  /\ Len(subs) < Len(SubsOf(handles, Len(handles))) + MaxSubs
  /\ \A s \in 1 .. Len(subs) : subs[s] # [src |-> handles[h], data_only |-> data_only]
  /\ LET c == StateWatcher_raw_modifies_call(handles[h], Ctx)
     IN IF ~c.ok THEN Abort("raw_modifies", h)
        ELSE /\ Room(c) /\ SetCtx(c)
             /\ subs' = Append(subs, [src |-> handles[h], data_only |-> data_only])
             /\ last' = NoLast
             /\ UNCHANGED << value, handles, wrefs, rrefs, writer_count, infos, panicked >>

\* h.scope_path()
ScopePath(h) ==
  /\ Running /\ IsWriter(handles[h])
  /\ last' = [NoLast EXCEPT !.op = "scope_path", !.h = h, !.src = handles[h],
                            !.val = StateWriter_scope_path(handles[h])]
  /\ UNCHANGED << value, borrow, handles, wrefs, rrefs, batched_modifies, writer_count,
                  infos, queue, subs, emitted, batch, panicked >>

\* h.clone_reader()
CloneReader(h) ==
  /\ Running /\ handles[h] # NoHandle /\ HasFree
  /\ LET r == StateReader_clone_reader(handles[h], writer_count)
     IN /\ Depth(r.layers) <= MaxDepth
        /\ handles' = [handles EXCEPT ![Free] = r.layers]
        /\ writer_count' = r.wc
  /\ last' = NoLast
  /\ UNCHANGED << value, borrow, wrefs, rrefs, batched_modifies, infos, queue, subs, emitted,
                  batch, panicked >>

\* h.into_reader()
IntoReader(h) ==
  /\ Running /\ IsWriter(handles[h]) /\ Unborrowed(h)
  /\ LET L == handles[h]
         r == StateWatcher_into_reader(L, writer_count)
     IN /\ handles' = [handles EXCEPT ![h] = r.layers]
        /\ writer_count' = r.wc
        /\ last' = [NoLast EXCEPT !.op = "into_reader", !.ok = r.ok, !.h = h, !.src = L,
                                  !.n = writer_count[ScopeInfo(L)]]
  /\ UNCHANGED << value, borrow, wrefs, rrefs, batched_modifies, infos, queue, subs, emitted,
                  batch, panicked >>

\* h.clone_watcher()
CloneWatcher(h) ==
  /\ Running /\ handles[h] # NoHandle /\ HasFree
  /\ Top(handles[h]).k \in {"Stateful", "Writer", "Part", "Box", "Watcher"}
  /\ LET r == StateWatcher_clone_watcher(handles[h], writer_count)
         c == StateWatcher_raw_modifies_call(handles[h], Ctx)
     IN IF ~c.ok THEN Abort("clone_watcher", h)
        ELSE /\ Room(c) /\ SetCtx(c)
             /\ handles' = [handles EXCEPT ![Free] = r.layers]
             /\ writer_count' = r.wc
             /\ last' = NoLast
             /\ UNCHANGED << value, wrefs, rrefs, infos, subs, panicked >>

\* h.part_watcher(|v| &v.f)
PartWatcherOf(h, f) ==
  /\ Running /\ handles[h] # NoHandle /\ HasFree
  /\ Top(handles[h]).k \in {"Stateful", "Writer", "Part", "Watcher"}
  /\ LET r == StateWatcher_part_watcher(handles[h], writer_count, f)
         c == StateWatcher_raw_modifies_call(handles[h], Ctx)
     IN /\ Depth(r.layers) <= MaxDepth
        /\ IF ~c.ok THEN Abort("part_watcher", h)
           ELSE /\ Room(c) /\ SetCtx(c)
                /\ handles' = [handles EXCEPT ![Free] = r.layers]
                /\ writer_count' = r.wc
                /\ last' = NoLast
                /\ UNCHANGED << value, wrefs, rrefs, infos, subs, panicked >>

\* Sc::ref_count of the cell: every live handle holds one reference.
StateCell_ref_count == Cardinality({h \in Slots : handles[h] # NoHandle})

\* h.try_into_value()
TryIntoValue(h) ==
  /\ Running /\ handles[h] # NoHandle /\ Unborrowed(h)
  /\ LET L == handles[h]
         r == StateReader_try_into_value(L, StateCell_ref_count, writer_count)
     IN /\ handles' = [handles EXCEPT ![h] = r.layers]
        /\ writer_count' = r.wc
        /\ last' = [NoLast EXCEPT !.op = "try_into_value", !.ok = r.ok, !.h = h, !.src = L,
                                  !.n = StateCell_ref_count,
                                  !.val = IF r.ok THEN << value.a, value.b >> ELSE << >>]
  /\ UNCHANGED << value, borrow, wrefs, rrefs, batched_modifies, infos, queue, subs, emitted,
                  batch, panicked >>

\* Stateful::new(value) again, once try_into_value has taken the cell apart.
NewStateful ==
  /\ Running /\ \A h \in Slots : handles[h] = NoHandle
  /\ handles' = [handles EXCEPT ![1] = << StatefulL(FALSE) >>]
  /\ writer_count' = [writer_count EXCEPT ![0] = 1]
  /\ last' = NoLast
  /\ UNCHANGED << value, borrow, wrefs, rrefs, batched_modifies, infos, queue, subs, emitted,
                  batch, panicked >>

\* drop(h)
DropHandle(h) ==
  /\ Running /\ handles[h] # NoHandle /\ Unborrowed(h)
  /\ handles' = [handles EXCEPT ![h] = NoHandle]
  /\ writer_count' = DropCounts(handles[h], writer_count)
  /\ last' = NoLast
  /\ UNCHANGED << value, borrow, wrefs, rrefs, batched_modifies, infos, queue, subs, emitted,
                  batch, panicked >>

\* ------------------------------------------------------------------- guards
RemoveAt(seq, i) == SubSeq(seq, 1, i - 1) \o SubSeq(seq, i + 1, Len(seq))

\* h.write() / h.silent() / h.shallow()
Write(h, kind) ==
  /\ Running /\ IsWriter(handles[h])
  /\ LET L == handles[h]
         r == StateWriter_write(L, [h |-> h, src |-> L, kind |-> kind], Ctx)
     IN IF ~r.ctx.ok THEN Abort(kind, h)
        ELSE /\ Room(r.ctx)
             /\ SetCtx(r.ctx)
             /\ wrefs' = Append(wrefs, r.ref)
             /\ last' = NoLast
             /\ UNCHANGED << value, handles, rrefs, writer_count, infos, subs, panicked >>

\* DerefMut for WriteRef: `self.modified = true`.
WriteRef_deref_mut(ref) == [ref EXCEPT !.modified = TRUE]

\* *guard = v  (DerefMut)
DerefMut(g, v) ==
  /\ Running /\ g \in 1 .. Len(wrefs)
  /\ \/ wrefs[g].proj = "whole" /\ value' = v
     \/ wrefs[g].proj # "whole" /\ value' = [value EXCEPT ![wrefs[g].proj] = v.a]
  /\ wrefs' = [wrefs EXCEPT ![g] = WriteRef_deref_mut(@)]
  /\ last' = [NoLast EXCEPT !.op = "deref_mut", !.h = wrefs[g].h, !.src = wrefs[g].src,
                            !.val = IF wrefs[g].proj = "whole" THEN << v.a, v.b >>
                                                             ELSE << v.a >>]
  /\ UNCHANGED << borrow, handles, rrefs, batched_modifies, writer_count, infos, queue,
                  subs, emitted, batch, panicked >>

\* drop(guard)
DropWriteRef(g) ==
  /\ Running /\ g \in 1 .. Len(wrefs)
  /\ LET c == WriteRef_drop(wrefs[g], Ctx)
     IN Room(c) /\ SetCtx(c)
  /\ wrefs' = RemoveAt(wrefs, g)
  /\ last' = NoLast
  /\ UNCHANGED << value, handles, rrefs, writer_count, infos, subs, panicked >>

\* guard.silent() / guard.shallow()
RetagRef(g, kind) ==
  /\ Running /\ g \in 1 .. Len(wrefs)
  /\ LET r == IF kind = "silent" THEN WriteRef_silent(wrefs[g], Ctx)
                                 ELSE WriteRef_shallow(wrefs[g], Ctx)
     IN /\ Room(r.ctx) /\ SetCtx(r.ctx)
        /\ wrefs' = [wrefs EXCEPT ![g] = r.ref]
  /\ last' = [NoLast EXCEPT !.op = "retag", !.h = wrefs[g].h, !.src = wrefs[g].src,
                            !.n = wrefs[g].info,
                            !.batch = IF wrefs[g].modified THEN {Commit(wrefs[g])} ELSE {}]
  /\ UNCHANGED << value, handles, rrefs, writer_count, infos, subs, panicked >>

\* WriteRef::map(guard, |v| &mut v.f)
MapRef(g, f) ==
  /\ Running /\ g \in 1 .. Len(wrefs)
  /\ wrefs[g].proj = "whole"
  /\ LET r == WriteRef_map(wrefs[g], Ctx, f)
     IN /\ Room(r.ctx) /\ SetCtx(r.ctx)
        /\ wrefs' = [wrefs EXCEPT ![g] = r.ref]
  /\ last' = [NoLast EXCEPT !.op = "map", !.h = wrefs[g].h, !.src = wrefs[g].src,
                            !.n = wrefs[g].info,
                            !.batch = IF wrefs[g].modified THEN {Commit(wrefs[g])} ELSE {}]
  /\ UNCHANGED << value, handles, rrefs, writer_count, infos, subs, panicked >>

\* WriteRef::filter_map(guard, |v| ..): res is what the closure returns.
FilterMapRef(g, res) ==
  /\ Running /\ g \in 1 .. Len(wrefs)
  /\ res # "None" => wrefs[g].proj = "whole"
  /\ LET r == WriteRef_filter_map(wrefs[g], Ctx, res)
     IN /\ Room(r.ctx) /\ SetCtx(r.ctx)
        /\ wrefs' = [wrefs EXCEPT ![g] = r.ref]
        /\ last' = [NoLast EXCEPT !.op = "filter_map", !.ok = r.ok, !.h = wrefs[g].h,
                                  !.src = wrefs[g].src, !.n = wrefs[g].info,
                                  !.batch = IF r.ok /\ wrefs[g].modified
                                              THEN {Commit(wrefs[g])} ELSE {}]
  /\ UNCHANGED << value, handles, rrefs, writer_count, infos, subs, panicked >>

\* guard.forget_modifies()
ForgetModifies(g) ==
  /\ Running /\ g \in 1 .. Len(wrefs)
  /\ LET r == WriteRef_forget_modifies(wrefs[g])
     IN /\ wrefs' = [wrefs EXCEPT ![g] = r.ref]
        /\ last' = [NoLast EXCEPT !.op = "forget_modifies", !.ok = r.ret, !.h = wrefs[g].h,
                                  !.src = wrefs[g].src, !.n = wrefs[g].info]
  /\ UNCHANGED << value, borrow, handles, rrefs, batched_modifies, writer_count, infos,
                  queue, subs, emitted, batch, panicked >>

\* h.read()
Read(h) ==
  /\ Running /\ handles[h] # NoHandle /\ NumReads < MaxReads
  /\ LET c == StateReader_read(handles[h], Ctx)
     IN IF ~c.ok THEN Abort("read", h)
        ELSE /\ borrow' = c.bw
             /\ rrefs' = [rrefs EXCEPT ![h] = @ + 1]
             /\ last' = [NoLast EXCEPT !.op = "read", !.h = h, !.src = handles[h],
                                        !.val = View(value, ProjOf(handles[h]))]
             /\ UNCHANGED << value, handles, wrefs, batched_modifies, writer_count, infos,
                             queue, subs, emitted, batch, panicked >>

\* drop(read guard)
DropReadRef(h) ==
  /\ Running /\ rrefs[h] > 0
  /\ borrow' = borrow - 1
  /\ rrefs' = [rrefs EXCEPT ![h] = @ - 1]
  /\ last' = NoLast
  /\ UNCHANGED << value, handles, wrefs, batched_modifies, writer_count, infos, queue,
                  subs, emitted, batch, panicked >>

\* ---------------------------------------------------------------- scheduler
\* The scheduler runs the oldest request: it takes the WriterInfo's batched
\* effect, clears the slot and emits one ModifyInfo{effect, path} on the
\* WriterInfo's notifier.
ModifyInfo(req) == [effect |-> batched_modifies[req.info], path |-> req.path]

Drain ==
  /\ Running /\ queue # << >>
  /\ LET req == Head(queue)
         ev == ModifyInfo(req)
     IN /\ emitted' = << [info |-> req.info, effect |-> ev.effect, path |-> ev.path] >>
        /\ batched_modifies' = [batched_modifies EXCEPT ![req.info] = NoEffect]
        /\ batch' = [batch EXCEPT ![req.info] = {}]
        /\ last' = [NoLast EXCEPT !.op = "drain", !.n = req.info, !.batch = batch[req.info]]
  /\ queue' = Tail(queue)
  /\ UNCHANGED << value, borrow, handles, wrefs, rrefs, writer_count, infos, subs,
                  panicked >>

\* A subscriber's callback, run by the scheduler with the event just emitted,
\* writes through handle h: `*h.write() = v` (or silent / shallow) as one
\* statement, the guard taken, mutated and dropped.
CallbackWrite(h, kind) ==
  /\ Running /\ last.op = "drain" /\ IsWriter(handles[h])
  /\ \E s \in 1 .. Len(subs) :
       Receives(subs[s], emitted[1].info,
                [effect |-> emitted[1].effect, path |-> emitted[1].path])
  /\ LET L == handles[h]
         w == StateWriter_write(L, [h |-> h, src |-> L, kind |-> kind], Ctx)
         g == WriteRef_deref_mut(w.ref)
         c == WriteRef_drop(g, w.ctx)
     IN IF ~w.ctx.ok THEN Abort(kind, h)
        ELSE /\ Room(c)
             /\ SetCtx(c)
             /\ last' = [NoLast EXCEPT !.op = "callback", !.h = h, !.src = L,
                                       !.n = g.info, !.batch = {Commit(g)}]
             /\ UNCHANGED << value, handles, wrefs, rrefs, writer_count, infos, subs,
                             panicked >>

\* Writers, their subscribers and the scheduler; every write stores the value
\* already there, as `*split_a.write() = 0` in tests::split_notify.
Next ==
  \/ \E h \in Slots, kind \in Kinds : Write(h, kind)
  \/ \E g \in 1 .. Len(wrefs) : DerefMut(g, value)
  \/ \E g \in 1 .. Len(wrefs) : DropWriteRef(g)
  \/ \E g \in 1 .. Len(wrefs), kind \in {"silent", "shallow"} : RetagRef(g, kind)
  \/ Drain

Spec == Init /\ [][Next]_vars

\* Read and write guards on one cell, through every kind of handle.
NextBorrow ==
  \/ \E h \in Slots, kind \in Kinds : Write(h, kind)
  \/ \E g \in 1 .. Len(wrefs), a, b \in Vals : DerefMut(g, [a |-> a, b |-> b])
  \/ \E g \in 1 .. Len(wrefs) : DropWriteRef(g)
  \/ \E g \in 1 .. Len(wrefs), kind \in {"silent", "shallow"} : RetagRef(g, kind)
  \/ \E g \in 1 .. Len(wrefs), f \in Fields : MapRef(g, f)
  \/ \E h \in Slots : Read(h)
  \/ \E h \in Slots : DropReadRef(h)
  \/ Drain

SpecBorrow == InitBorrow /\ [][NextBorrow]_vars

\* Everything a caller can do with a WriteRef, and the scheduler.
NextGuard ==
  \/ \E h \in Slots, kind \in Kinds : Write(h, kind)
  \/ \E g \in 1 .. Len(wrefs) : DerefMut(g, value)
  \/ \E g \in 1 .. Len(wrefs) : DropWriteRef(g)
  \/ \E g \in 1 .. Len(wrefs), kind \in {"silent", "shallow"} : RetagRef(g, kind)
  \/ \E g \in 1 .. Len(wrefs), f \in Fields : MapRef(g, f)
  \/ \E g \in 1 .. Len(wrefs), res \in {"None"} \cup Fields : FilterMapRef(g, res)
  \/ \E g \in 1 .. Len(wrefs) : ForgetModifies(g)
  \/ Drain

SpecGuard == InitGuard /\ [][NextGuard]_vars

NextHandles ==
  \/ \E h \in Slots : CloneWriter(h)
  \/ \E h \in Slots, id \in PartialIds : PartWriterOf(h, id)
  \/ \E h \in Slots, f \in Fields : SplitWriterOf(h, f)
  \/ \E h \in Slots : IntoWriter(h)
  \/ \E h \in Slots, include \in BOOLEAN : IncludePartialWriters(h, include)
  \/ \E h \in Slots : CloneReader(h)
  \/ \E h \in Slots : IntoReader(h)
  \/ \E h \in Slots : DropHandle(h)

SpecHandles == InitHandles /\ [][NextHandles]_vars

\* A root writer, a part writer of it held as a PartWriter, as a Writer or
\* boxed, and a free slot for a handle made from them.
CallFamilies ==
  { << Root(FALSE, er), Append(Root(FALSE, er), PartL(<< "a" >>, FALSE, "a")) \o wrap,
       NoHandle >> : er \in BOOLEAN, wrap \in {<< >>, << WriterL >>, << BoxL >>} }

InitCalls == InitFamily(CallFamilies)

\* Every call of the writer hierarchy, with guards on the cell alive or not.
NextCalls ==
  \/ \E h \in Slots, kind \in Kinds : Write(h, kind)
  \/ \E g \in 1 .. Len(wrefs) : DropWriteRef(g)
  \/ \E h \in Slots : Read(h)
  \/ \E h \in Slots : DropReadRef(h)
  \/ \E h \in Slots : CloneWriter(h)
  \/ \E h \in Slots : CloneReader(h)
  \/ \E h \in Slots : CloneWatcher(h)
  \/ \E h \in Slots, id \in PartialIds : PartWriterOf(h, id)
  \/ \E h \in Slots, include \in BOOLEAN : IncludePartialWriters(h, include)
  \/ \E h \in Slots : ScopePath(h)
  \/ \E h \in Slots, op \in {"raw_modifies", "modifies"} : RawModifies(h, op)
  \/ DropHandle(Len(handles))

SpecCalls == InitCalls /\ [][NextCalls]_vars

\* Readers and watchers of a cell, and the attempts to take its value back.
NextReaders ==
  \/ \E h \in Slots : CloneReader(h)
  \/ \E h \in Slots : CloneWatcher(h)
  \/ \E h \in Slots, f \in Fields : PartWatcherOf(h, f)
  \/ \E h \in Slots, include \in BOOLEAN : IncludePartialWriters(h, include)
  \/ \E h \in Slots : IntoReader(h)
  \/ \E h \in Slots : TryIntoValue(h)
  \/ \E h \in Slots : DropHandle(h)
  \/ NewStateful

SpecReaders == InitHandles /\ [][NextReaders]_vars

\* Writers, subscribers whose callbacks write, and a scheduler that runs a
\* request whenever one is queued.
NextLive ==
  \/ \E h \in Slots, kind \in Kinds : Write(h, kind)
  \/ \E g \in 1 .. Len(wrefs) : DerefMut(g, value)
  \/ \E g \in 1 .. Len(wrefs) : DropWriteRef(g)
  \/ \E h \in Slots, kind \in Kinds : CallbackWrite(h, kind)
  \/ Drain

SpecLive == InitGuard /\ [][NextLive]_vars /\ WF_vars(Drain)

\* A root writer and a part writer of it, reconfigured and subscribed to
\* while writes go on.
StreamFamilies ==
  { << Root(FALSE, er), Append(Root(FALSE, er), PartL(<< "a" >>, FALSE, "a")) >> :
       er \in BOOLEAN }

InitStreams == InitFamily(StreamFamilies)

NextStreams ==
  \/ \E h \in Slots, include \in BOOLEAN : IncludePartialWriters(h, include)
  \/ \E h \in Slots, data_only \in BOOLEAN : Subscribe(h, data_only)
  \/ \E h \in Slots : Write(h, "write")
  \/ \E g \in 1 .. Len(wrefs) : DerefMut(g, value)
  \/ \E g \in 1 .. Len(wrefs) : DropWriteRef(g)
  \/ Drain

SpecStreams == InitStreams /\ [][NextStreams]_vars

\* o, o.part_writer("a", ..), o.part_watcher(|v| &v.b) and the part writer's
\* part_watcher(|v| v), each with a raw_modifies() subscriber.
WatchFamilies ==
  { LET o == << StatefulL(inc) >>
        p == Append(o, PartL(<< "a" >>, FALSE, "a"))
        wc == [i \in Infos |-> 0]
    IN << o, p, StateWatcher_part_watcher(o, wc, "b").layers,
          StateWatcher_part_watcher(p, wc, "a").layers >> : inc \in BOOLEAN }

InitWatch ==
  /\ InitCell
  /\ handles \in WatchFamilies
  /\ rrefs = [h \in DOMAIN handles |-> 0]
  /\ writer_count = CountsOf(handles, Len(handles))
  /\ infos = MaxSplits
  /\ subs = [h \in DOMAIN handles |-> [src |-> handles[h], data_only |-> FALSE]]

NextWatch ==
  \/ \E h \in Slots, kind \in Kinds : Write(h, kind)
  \/ \E g \in 1 .. Len(wrefs), a, b \in Vals : DerefMut(g, [a |-> a, b |-> b])
  \/ \E g \in 1 .. Len(wrefs) : DropWriteRef(g)
  \/ \E h \in Slots : Read(h)
  \/ \E h \in Slots : DropReadRef(h)
  \/ Drain

SpecWatch == InitWatch /\ [][NextWatch]_vars

\* o, p = o.part_writer("a", ..) and q = p.part_writer("b", ..), with p held
\* as a PartWriter, a type-erased Writer or a boxed writer when q is derived;
\* and o, a split writer s of o and s.part_writer("b", ..).
NestedFamilies ==
  { LET o == Root(FALSE, er)
        p == StateWriter_part_writer(o, << "a" >>) \o wrap
    IN << o, p, StateWriter_part_writer(p, << "b" >>) >> :
       er \in BOOLEAN, wrap \in {<< >>, << WriterL >>, << BoxL >>} }
  \cup
  { LET o == Root(FALSE, FALSE)
        sp == Append(o, SplitL(1, "a"))
    IN << o, sp, StateWriter_part_writer(sp, << "b" >>) >> }

InitNested == InitFamily(NestedFamilies)

NextNested ==
  \/ \E h \in Slots, kind \in Kinds : Write(h, kind)
  \/ \E g \in 1 .. Len(wrefs) : DerefMut(g, value)
  \/ \E g \in 1 .. Len(wrefs) : DropWriteRef(g)
  \/ Drain

SpecNested == InitNested /\ [][NextNested]_vars

\* A root writer, a part writer of it and a free slot: writes, and the calls
\* that make a stream or a watcher of a writer.
PartStreamFamilies ==
  { << Root(FALSE, FALSE), StateWriter_part_writer(Root(FALSE, FALSE), << "a" >>),
       NoHandle >> }

InitPartStreams == InitFamily(PartStreamFamilies)

NextPartStreams ==
  \/ \E h \in Slots : Write(h, "write")
  \/ \E g \in 1 .. Len(wrefs) : DerefMut(g, value)
  \/ \E g \in 1 .. Len(wrefs) : DropWriteRef(g)
  \/ \E h \in Slots, op \in {"raw_modifies", "modifies"} : RawModifies(h, op)
  \/ \E h \in Slots : CloneWatcher(h)
  \/ DropHandle(Len(handles))
  \/ Drain

SpecPartStreams == InitPartStreams /\ [][NextPartStreams]_vars

\* o, a writer x derived from o (a part writer, a split writer, or o itself
\* again) and a split writer of x.
SplitFamilies ==
  UNION { LET o == Root(FALSE, er)
          IN { << o, x, Append(x, SplitL(2, "b")) >> :
                 x \in { o, StateWriter_part_writer(o, << "a" >>),
                         Append(o, SplitL(1, "a")) } } :
          er \in BOOLEAN }

InitSplits == InitFamily(SplitFamilies)

NextSplits ==
  \/ \E h \in Slots, kind \in Kinds : Write(h, kind)
  \/ \E g \in 1 .. Len(wrefs) : DerefMut(g, value)
  \/ \E g \in 1 .. Len(wrefs) : DropWriteRef(g)
  \/ Drain

SpecSplits == InitSplits /\ [][NextSplits]_vars

\* ================================================================ claims
\* The event the latest scheduler run emitted.
LastEvent == emitted[1]
Drained == last.op = "drain"
Requests(i) == Cardinality({r \in 1 .. Len(queue) : queue[r].info = i})
Tags(B) == UNION {c.effect : c \in B}
RawSub(L) == [src |-> L, data_only |-> FALSE]
DataSub(L) == [src |-> L, data_only |-> TRUE]
Subscribed(sub) == \E s \in 1 .. Len(subs) : subs[s] = sub
\* The subscription is live and receives the latest event.
Hears(sub) == Subscribed(sub) /\ Receives(sub, LastEvent.info, [effect |-> LastEvent.effect, path |-> LastEvent.path])
\* Every commit of B is a guard handed out by the writer with layers L.
AllBy(B, L) == B # {} /\ \A c \in B : c.src = L /\ c.role = "guard"

\* C1: when the guards committed before a scheduler run all come from one
\* writer (N >= 1 of them), the run emits one event on that writer's
\* WriterInfo, its effect is the union of the guards' tags, every raw
\* subscriber of the writer receives it, and nothing of the batch is left to
\* be delivered a second time (no request, empty slot).
C1_OneEventPerBatch ==
  Drained =>
    \A h \in Slots :
      AllBy(last.batch, handles[h]) =>
        /\ LastEvent.info = last.n
        /\ LastEvent.effect = Tags(last.batch)
        /\ Hears(RawSub(handles[h]))
        /\ Requests(last.n) = 0
        /\ batched_modifies[last.n] = NoEffect

\* Two guards of one writer with different tags, DATA and FRAMEWORK, were
\* committed and drained as one event with effect BOTH.
C1_Witness ==
  /\ Drained
  /\ \E h \in Slots : AllBy(last.batch, handles[h])
  /\ {c.effect : c \in last.batch} = {DATA, FRAMEWORK}
  /\ LastEvent.effect = BOTH

\* C2: every WriterInfo has at most one scheduler request outstanding, has one
\* exactly when its batch slot is not empty, and the slot holds the union of
\* the tags committed since the last drain (a later guard is OR-ed in).
C2_OneRequestPerSlot ==
  \A i \in Infos :
    /\ Requests(i) <= 1
    /\ Requests(i) = 1 <=> batched_modifies[i] # NoEffect
    /\ batched_modifies[i] = Tags(batch[i])

\* A second guard with another tag was dropped while a request was pending.
C2_Witness ==
  \E i \in Infos :
    /\ Cardinality({c.effect : c \in batch[i]}) = 2
    /\ Requests(i) = 1
    /\ batched_modifies[i] = BOTH

\* C3: a write()/silent()/shallow() succeeds only on an unborrowed cell and a
\* read() only on a cell that is not exclusively borrowed: no write guard is
\* ever alive together with a read guard or another write guard, whatever
\* handles they were taken through, and a call aborts only on such a conflict.
C3_BorrowRule ==
  /\ wrefs # << >> => Len(wrefs) = 1 /\ NumReads = 0
  /\ ~last.ok /\ last.op \in Kinds => last.n # 0
  /\ ~last.ok /\ last.op = "read" => last.n < 0
  /\ panicked => ~last.ok /\ last.op \in Kinds \cup {"read"}

\* Two read guards were alive together, and a write through a part writer
\* then aborted.
C3_Witness ==
  /\ panicked
  /\ last.op = "write"
  /\ last.n = 2
  /\ Top(last.src).k = "Part"

\* C4: the borrow flag is -1 exactly while the one write guard is alive and is
\* the number of live read guards otherwise, through guard projections and
\* retagging; with every guard released the cell is unborrowed.
C4_BorrowFlag ==
  /\ borrow >= -1
  /\ borrow = -1 <=> Len(wrefs) = 1
  /\ borrow >= 0 => wrefs = << >> /\ borrow = NumReads

\* A write guard of the whole struct projected to a field by WriteRef::map
\* holds the exclusive borrow.
C4_Witness ==
  /\ Len(wrefs) = 1
  /\ ProjOf(wrefs[1].src) = "whole"
  /\ wrefs[1].proj # "whole"
  /\ borrow = -1

\* The root writer of a family and the writers derived from it.
O == handles[1]
PartsFamily(inc) ==
  /\ Len(handles) = 3
  /\ O[1].inc = inc
  /\ Top(handles[2]).k = "Part" /\ Top(handles[2]).path = << "a" >>
  /\ Top(handles[3]).k = "Part" /\ Top(handles[3]).path = << "b" >>
IsSplit(L) == L # NoHandle /\ Top(L).k = "Split"
\* The latest scheduler run drained exactly one guard, taken by write() on the
\* writer with layers L and mutated.
WroteVia(L) ==
  /\ Drained
  /\ \E c \in last.batch : last.batch = {c} /\ c.src = L /\ c.kind = "write" /\ c.role = "guard"
\* The latest scheduler run drained only commits made through split writers.
SplitBatch == Drained /\ last.batch # {} /\ \A c \in last.batch : IsSplit(c.src)

\* C5: with include_partial_writers(true) on the origin, a write() through the
\* part writer "a" (or "b") is delivered with effect BOTH to the modifies()
\* subscribers of the origin and of that part writer and not to the other
\* part writer's; a write() through the origin reaches only the origin's.
C5_IncludePartial ==
  PartsFamily(TRUE) =>
    /\ \A x, y \in 2 .. 3 :
         x # y /\ WroteVia(handles[x]) =>
           /\ LastEvent.effect = BOTH
           /\ Hears(DataSub(O))
           /\ Hears(DataSub(handles[x]))
           /\ ~Hears(DataSub(handles[y])) /\ ~Hears(RawSub(handles[y]))
    /\ WroteVia(O) =>
         /\ LastEvent.effect = BOTH
         /\ Hears(DataSub(O))
         /\ \A x \in 2 .. 3 : ~Hears(DataSub(handles[x])) /\ ~Hears(RawSub(handles[x]))

\* A write() through part writer "a" was delivered to the including origin.
C5_Witness ==
  /\ PartsFamily(TRUE)
  /\ WroteVia(handles[2])
  /\ Hears(DataSub(O)) /\ Hears(DataSub(handles[2]))

\* C6: with include_partial_writers left false on the root, a write() through
\* a part writer reaches only that part writer's subscribers (not the root's,
\* not its sibling's), and a write() through the root only the root's.
C6_Isolated ==
  PartsFamily(FALSE) =>
    \A x \in 1 .. 3 :
      WroteVia(handles[x]) =>
        /\ Hears(DataSub(handles[x])) /\ Hears(RawSub(handles[x]))
        /\ \A y \in (1 .. 3) \ {x} : ~Hears(DataSub(handles[y])) /\ ~Hears(RawSub(handles[y]))

\* A write() through the root with include_partial_writers false was delivered.
C6_Witness ==
  /\ PartsFamily(FALSE)
  /\ WroteVia(O)
  /\ Hears(DataSub(O))
  /\ ~Hears(DataSub(handles[2]))

\* C7 as stated: pair = Stateful::new(..) with the default setting;
\* *first.write() = .. notifies the pair's and first's subscribers and not
\* second's.
C7_PairNotified ==
  PartsFamily(FALSE) /\ O = << StatefulL(FALSE) >> /\ WroteVia(handles[2]) =>
    /\ Hears(DataSub(O))
    /\ Hears(DataSub(handles[2]))
    /\ ~Hears(DataSub(handles[3]))

\* C7: pair = Stateful::new(..) with the default setting; *first.write() = ..
\* notifies first's subscriber, and neither the pair's nor second's.
C7_OnlyFirstNotified ==
  PartsFamily(FALSE) /\ O = << StatefulL(FALSE) >> /\ WroteVia(handles[2]) =>
    /\ ~Hears(DataSub(O))
    /\ Hears(DataSub(handles[2]))
    /\ ~Hears(DataSub(handles[3]))

\* *first.write() = .. was drained and first's subscriber notified.
C7_Witness ==
  /\ PartsFamily(FALSE) /\ O = << StatefulL(FALSE) >>
  /\ WroteVia(handles[2])
  /\ LastEvent = [info |-> 0, effect |-> BOTH, path |-> << "a" >>]
  /\ Hears(DataSub(handles[2]))

C9_OriginNotOnSplit ==
  /\ Drained =>
       \A h \in Slots :
         IsSplit(handles[h]) /\ (Hears(RawSub(handles[h])) \/ Hears(DataSub(handles[h]))) =>
           \A c \in last.batch : c.src = handles[h] /\ c.role = "guard"
  /\ WroteVia(O) => \A h \in Slots : IsSplit(handles[h]) => ~Hears(RawSub(handles[h]))
  /\ last.op = "read" /\ last.ok /\ IsSplit(last.src) =>
       last.val = << value[Top(last.src).proj] >>

\* After a write() through the origin was delivered, read() through the split
\* writer returned the changed field.
C9_Witness ==
  /\ last.op = "read" /\ IsSplit(last.src)
  /\ last.val = << MaxVal >>
  /\ emitted # << >>
  /\ LastEvent = [info |-> 0, effect |-> BOTH, path |-> << >>]

\* C10 as stated: into_reader() succeeds exactly when the writer is the only
\* writer handle alive on its notification scope, and a refusal hands the
\* writer back unchanged with the writer counts untouched.
C10_IntoReaderIffSole ==
  last.op = "into_reader" =>
    /\ last.ok <=> last.n = 1
    /\ ~last.ok => handles[last.h] = last.src /\ writer_count[ScopeInfo(last.src)] = last.n

\* The field of the struct a handle's chain of projections shows, or "whole".
FieldOf(L) ==
  LET P == {i \in 1 .. Len(L) : L[i].proj # "whole"}
  IN IF P = {} THEN "whole" ELSE L[CHOOSE i \in P : \A j \in P : i <= j].proj
\* What the origin's storage holds at a field, or as a whole.
Stored(f) == IF f = "whole" THEN << value.a, value.b >> ELSE << value[f] >>

C12_ModifiesIsDataOnly ==
  Drained =>
    \A h \in Slots :
      IsWriter(handles[h]) =>
        /\ Hears(DataSub(handles[h])) <=>
             Hears(RawSub(handles[h])) /\ "DATA" \in LastEvent.effect
        /\ AllBy(last.batch, handles[h]) /\ Tags(last.batch) = FRAMEWORK =>
             Hears(RawSub(handles[h])) /\ ~Hears(DataSub(handles[h]))

\* A batch of shallow writes was delivered to a raw_modifies() subscriber only.
C12_Witness ==
  /\ Drained
  /\ Tags(last.batch) = FRAMEWORK
  /\ \E h \in Slots : /\ AllBy(last.batch, handles[h])
                      /\ Hears(RawSub(handles[h]))
                      /\ ~Hears(DataSub(handles[h]))

\* What the batching algorithm does with one commit of guard w: the tag is
\* OR-ed into the slot of w's WriterInfo, and the hook is called when the slot
\* was empty.
Batched(w) ==
  /\ batched_modifies' = [batched_modifies EXCEPT ![w.info] = @ \cup w.modify_effect]
  /\ batch' = [batch EXCEPT ![w.info] = @ \cup {Commit(w)}]
  /\ queue' = IF batched_modifies[w.info] = NoEffect /\ w.modify_effect # NoEffect
                THEN Append(queue, [path |-> w.path, info |-> w.info])
                ELSE queue

\* The guard consumed by a call commits what it had accumulated, if anything.
CommitsPending(w) ==
  IF w.modified THEN Batched(w) ELSE UNCHANGED << batched_modifies, batch, queue >>

\* C13: guard.silent() / guard.shallow() commits the modification the guard
\* had accumulated under its previous tag through the batching algorithm, and
\* leaves an unmodified guard tagged DATA / FRAMEWORK with the same WriterInfo
\* and path; an unmodified guard commits nothing.
C13_RetagCommitsThenResets ==
  [][\A g \in 1 .. Len(wrefs), kind \in {"silent", "shallow"} :
       RetagRef(g, kind) =>
         /\ CommitsPending(wrefs[g])
         /\ Len(wrefs') = Len(wrefs)
         /\ ~wrefs'[g].modified
         /\ wrefs'[g].modify_effect = IF kind = "silent" THEN DATA ELSE FRAMEWORK
         /\ wrefs'[g].info = wrefs[g].info
         /\ wrefs'[g].path = wrefs[g].path
         /\ UNCHANGED << borrow, emitted, value >>]_vars

\* A modified guard was retagged to a tag it did not have: its modification
\* sits in the slot under the previous tag, and the guard is unmodified.
C13_Witness ==
  /\ last.op = "retag" /\ last.batch # {}
  /\ batched_modifies[last.n] = Tags(last.batch)
  /\ \E g \in 1 .. Len(wrefs) :
       /\ wrefs[g].h = last.h /\ ~wrefs[g].modified
       /\ wrefs[g].modify_effect # Tags(last.batch)

\* C14: WriteRef::map(orig, f) commits what is pending on orig, under orig's
\* tag and path, within the call; the projected guard is unmodified and has
\* orig's WriterInfo, tag and path; an unmodified orig commits nothing, so the
\* projection marks neither guard modified.
C14_MapCommitsThenResets ==
  [][\A g \in 1 .. Len(wrefs), f \in Fields :
       MapRef(g, f) =>
         /\ CommitsPending(wrefs[g])
         /\ Len(wrefs') = Len(wrefs)
         /\ ~wrefs'[g].modified
         /\ wrefs'[g].modify_effect = wrefs[g].modify_effect
         /\ wrefs'[g].info = wrefs[g].info
         /\ wrefs'[g].path = wrefs[g].path
         /\ UNCHANGED << borrow, emitted, value >>]_vars

\* A modified guard was projected: its modification is in the slot and the
\* projected guard is unmodified.
C14_Witness ==
  /\ last.op = "map" /\ last.batch # {}
  /\ Tags(last.batch) \subseteq batched_modifies[last.n] /\ Requests(last.n) = 1
  /\ \E g \in 1 .. Len(wrefs) :
       /\ wrefs[g].h = last.h /\ wrefs[g].proj # "whole" /\ ~wrefs[g].modified
       /\ wrefs[g].modify_effect = Tags(last.batch)

\* C15: when the closure of WriteRef::filter_map gives None the guard comes
\* back as it was (modified flag, tag, path, borrow), nothing is committed and
\* the slot and the queue are unchanged; when it gives Some the call does what
\* WriteRef::map does.
C15_FilterMapNoneIsNoop ==
  [][\A g \in 1 .. Len(wrefs) :
       /\ FilterMapRef(g, "None") =>
            UNCHANGED << wrefs, borrow, batched_modifies, queue, batch, emitted, value >>
       /\ \A f \in Fields :
            FilterMapRef(g, f) =>
              /\ SetCtx(WriteRef_map(wrefs[g], Ctx, f).ctx)
              /\ wrefs' = [wrefs EXCEPT ![g] = WriteRef_map(wrefs[g], Ctx, f).ref]]_vars

\* A modified guard came back from a failed filter_map, still modified and
\* still holding the borrow, with nothing committed.
C15_Witness ==
  /\ last.op = "filter_map" /\ ~last.ok
  /\ batched_modifies[last.n] = NoEffect /\ queue = << >> /\ borrow = -1
  /\ \E g \in 1 .. Len(wrefs) : wrefs[g].h = last.h /\ wrefs[g].modified

\* C16: forget_modifies() returns true exactly when the guard was mutably
\* dereferenced since it was created or since the previous forget_modifies(),
\* and clears the flag without touching the slot or the queue; a guard dropped
\* right after the call changes neither the slot nor the queue; a guard
\* mutably dereferenced after the call commits when it drops.
C16_ForgetModifies ==
  [][\A g \in 1 .. Len(wrefs) :
       /\ ForgetModifies(g) =>
            /\ last'.ok = wrefs[g].modified
            /\ last.op = "deref_mut" => last'.ok
            /\ last.op \in {"none", "retag", "map", "forget_modifies"} => ~last'.ok
            /\ wrefs' = [wrefs EXCEPT ![g].modified = FALSE]
            /\ UNCHANGED << batched_modifies, queue, batch, borrow, emitted, value >>
       /\ DropWriteRef(g) /\ last.op = "forget_modifies" =>
            UNCHANGED << batched_modifies, queue, batch, emitted >>
       /\ DropWriteRef(g) /\ last.op = "deref_mut" => Batched(wrefs[g])]_vars

\* forget_modifies() returned true on a mutated guard: the guard is unmodified
\* and nothing was committed for it.
C16_Witness ==
  /\ last.op = "forget_modifies" /\ last.ok
  /\ batched_modifies[last.n] = NoEffect /\ Requests(last.n) = 0
  /\ \E g \in 1 .. Len(wrefs) : wrefs[g].h = last.h /\ ~wrefs[g].modified

\* A guard that was not mutated drops without a trace, and a guard becomes
\* modified only by a mutable dereference.
UnmodifiedDropIsSilent ==
  \A g \in 1 .. Len(wrefs) :
    /\ DropWriteRef(g) /\ ~wrefs[g].modified =>
         UNCHANGED << batched_modifies, queue, batch, emitted >>
    /\ DropWriteRef(g) /\ wrefs[g].modified /\ wrefs[g].modify_effect # NoEffect =>
         batched_modifies'[wrefs[g].info] # NoEffect
    /\ ~wrefs[g].modified /\ Len(wrefs') = Len(wrefs) /\ wrefs'[g].modified =>
         last'.op = "deref_mut"
    /\ last'.op = "deref_mut" /\ wrefs[g].h = last'.h => wrefs'[g].modified
\* Taking a guard through handle h commits nothing.
WriteIsSilent(h, kind) ==
  Write(h, kind) /\ ~panicked' => UNCHANGED << batched_modifies, queue, emitted >>

C18_DeliveryIsDeferred ==
  [][/\ \A g \in 1 .. Len(wrefs) :
          DropWriteRef(g) =>
            /\ emitted' = emitted
            /\ wrefs[g].modified /\ wrefs[g].modify_effect # NoEffect =>
                 /\ wrefs[g].modify_effect \subseteq batched_modifies'[wrefs[g].info]
                 /\ Cardinality({r \in 1 .. Len(queue') :
                                   queue'[r].info = wrefs[g].info}) = 1
     /\ emitted' # emitted /\ ~panicked' =>
          /\ Drain
          /\ emitted'[1].info = Head(queue).info]_vars

\* A mutated guard was dropped and no scheduler run has happened: its commit
\* is pending, its writer has a subscriber, and nothing was delivered.
C18_Witness ==
  /\ last = NoLast /\ wrefs = << >> /\ emitted = << >>
  /\ \E i \in Infos :
       /\ batched_modifies[i] = BOTH /\ Requests(i) = 1
       /\ \E c \in batch[i] : c.role = "guard" /\ Subscribed(RawSub(c.src))

\* The scheduler ran the request of WriterInfo i and emitted tag t on it.
Delivered(i, t) ==
  /\ Drained /\ last.n = i
  /\ LastEvent.info = i /\ t \in LastEvent.effect
  /\ batched_modifies[i] = NoEffect

C20_FifoPerStream ==
  [][IF Drain
       THEN LET i == Head(queue).info IN
            /\ emitted'[1].info = i
            /\ emitted'[1].effect = Tags(batch[i])
            /\ last'.batch = batch[i]
            /\ batch'[i] = {} /\ batched_modifies'[i] = NoEffect
            /\ \A r \in 1 .. Len(queue') : queue'[r].info # i
            /\ \A j \in Infos \ {i} :
                 batch'[j] = batch[j] /\ batched_modifies'[j] = batched_modifies[j]
       ELSE ~panicked' =>
              /\ emitted' = emitted
              /\ \A i \in Infos :
                   /\ batch[i] \subseteq batch'[i]
                   /\ batched_modifies[i] \subseteq batched_modifies'[i]]_vars

\* The event of a batch of a WriterInfo was delivered to a subscriber, and a
\* batch with another tag was committed on the same WriterInfo afterwards: it
\* is pending with its own request.
C20_Witness ==
  /\ emitted # << >> /\ last = NoLast
  /\ LastEvent.effect = DATA
  /\ batched_modifies[LastEvent.info] = FRAMEWORK
  /\ Requests(LastEvent.info) = 1
  /\ \E s \in 1 .. Len(subs) : Hears(subs[s])

\* The handle is a Reader, or a Watcher that wraps a Reader.
IsReaderOrWatcherOfReader(L) ==
  \/ L = << ReaderL >>
  \/ Len(L) = 2 /\ L[1] = ReaderL /\ L[2].k = "Watcher"

\* C21: try_into_value() on a Reader, or on a Watcher that wraps one, succeeds
\* exactly when the handle is the only reference to the cell; a refusal hands
\* back the same handle (for a Watcher the same reader and the same stream)
\* and leaves the cell, its reference count and the writer counts as they
\* were.
C21_TryIntoValueIffSole ==
  [][\A h \in Slots :
       TryIntoValue(h) /\ IsReaderOrWatcherOfReader(handles[h]) =>
         /\ last'.ok <=> StateCell_ref_count = 1
         /\ last'.ok => last'.val = << value.a, value.b >> /\ handles'[h] = NoHandle
         /\ ~last'.ok =>
              /\ handles' = handles
              /\ StateCell_ref_count' = StateCell_ref_count
              /\ UNCHANGED << value, borrow, writer_count >>]_vars

\* A Watcher of a Reader was refused while another handle was alive, and is
\* still the watcher it was, stream included.
C21_Witness ==
  /\ last.op = "try_into_value" /\ ~last.ok /\ last.n = 2
  /\ Len(last.src) = 2 /\ last.src[1] = ReaderL /\ last.src[2].k = "Watcher"
  /\ handles[last.h] = last.src

\* C22 as stated: a borrow conflict ends the program only in read(), write(),
\* silent() or shallow(); every other call of the writer hierarchy completes,
\* on every variant and with guards alive.
C22_OnlyAccessesAreFatal ==
  panicked => last.op \in Kinds \cup {"read"}

\* The events a notifier can emit.
ModifyInfos == [effect : {DATA, FRAMEWORK, BOTH}, path : PartialIds]

\* The result of an operation on the wrapped variant, held as a Writer again.
Rewrapped(r, L) == IF r.ok THEN r ELSE [r EXCEPT !.layers = Append(@, Top(L))]

\* C23 as stated: every trait operation on a type-erased Writer gives the
\* result, and has the effect, of the same operation on the Stateful or
\* PartWriter it wraps.
C23_WriterIsItsVariant ==
  \A h \in Slots :
    handles[h] # NoHandle /\ Top(handles[h]).k = "Writer" =>
      LET L == handles[h]
          V == Origin(L)
      IN /\ StateReader_read(L, Ctx) = StateReader_read(V, Ctx)
         /\ \A kind \in Kinds :
              StateWriter_write(L, [h |-> h, src |-> L, kind |-> kind], Ctx)
                = StateWriter_write(V, [h |-> h, src |-> L, kind |-> kind], Ctx)
         /\ NotifierOf(L) = NotifierOf(V)
         /\ \A ev \in ModifyInfos :
              StateWatcher_raw_modifies(L, ev) = StateWatcher_raw_modifies(V, ev)
         /\ StateWatcher_raw_modifies_call(L, Ctx) = StateWatcher_raw_modifies_call(V, Ctx)
         /\ CloneWriterCounts(L, writer_count) = CloneWriterCounts(V, writer_count)
         /\ \A include \in BOOLEAN :
              StateWriter_include_partial_writers(L, include)
                = Append(StateWriter_include_partial_writers(V, include), Top(L))
         /\ StateWriter_scope_path(L) = StateWriter_scope_path(V)
         /\ StateWatcher_into_reader(L, writer_count)
              = Rewrapped(StateWatcher_into_reader(V, writer_count), L)
         /\ StateReader_try_into_value(L, StateCell_ref_count, writer_count)
              = Rewrapped(StateReader_try_into_value(V, StateCell_ref_count, writer_count), L)


\* The ids of the part_writer calls that derived the writer from the root, in
\* order: each PartWriter layer was given `path = origin.scope_path() + id`, so
\* the id of its call is what its path holds beyond the origin's scope path.
RECURSIVE DerivedBy(_)
DerivedBy(L) ==
  IF L = << >> THEN << >>
  ELSE IF Top(L).k = "Part"
    THEN DerivedBy(Origin(L))
           \o SubSeq(Top(L).path, Len(StateWriter_scope_path(Origin(L))) + 1,
                     Len(Top(L).path))
    ELSE DerivedBy(Origin(L))

HeldAsListed(L) ==
  IsWriter(L) /\ \A i \in 1 .. Len(L) : L[i].k \in {"Stateful", "Part", "Writer", "Box"}

\* C24: the scope path of every writer, held as a Stateful, a PartWriter, a
\* type-erased Writer or a boxed writer, is the list of the non-wildcard ids of
\* the part_writer calls that derived it from the root.
C24_ScopePathIsDerivation ==
  \A h \in Slots :
    HeldAsListed(handles[h]) =>
      StateWriter_scope_path(handles[h]) = DerivedBy(handles[h])


\* handles[2] is M = O.part_writer(PartialId::any(), |v| &mut v.b).
M == handles[2]
WildcardFamily ==
  /\ Len(handles) = 3
  /\ Top(M).k = "Part" /\ Top(M).path = << >> /\ Origin(M) = O

IsChild(x) == x \in Slots /\ Top(handles[x]).k = "Part" /\ Origin(handles[x]) = O
Deaf(L) == ~Hears(RawSub(L)) /\ ~Hears(DataSub(L))

Reconfigures(h) ==
  /\ handles[h] # NoHandle /\ handles'[h] # handles[h]
  /\ \E x \in BOOLEAN : handles'[h] = StateWriter_include_partial_writers(handles[h], x)
  /\ \A g \in Slots \ {h} : handles'[g] = handles[g]

\* C27: include_partial_writers(x) leaves every stream made before it as it
\* was (each still passes exactly the events it passed), and a stream made
\* afterwards filters with the setting the writer has then.
C27_StreamsKeepTheirSetting ==
  [][/\ \A h \in Slots :
          Reconfigures(h) =>
            /\ Len(subs') = Len(subs)
            /\ \A s \in 1 .. Len(subs), i \in Infos, ev \in ModifyInfos :
                 Receives(subs'[s], i, ev) <=> Receives(subs[s], i, ev)
     /\ Len(subs') > Len(subs) =>
          /\ SubSeq(subs', 1, Len(subs)) = subs
          /\ \E h \in Slots : subs'[Len(subs')].src = handles[h]
    ]_vars

\* The root was subscribed to with the default setting, then reconfigured to
\* include its part writers and subscribed to again; a write() through part
\* writer "a" reached the new subscription and not the old one.
C27_Witness ==
  /\ Len(handles) = 2 /\ Top(handles[2]).k = "Part"
  /\ WroteVia(handles[2])
  /\ \E old, new \in 1 .. Len(subs) :
       /\ subs[old].src = StateWriter_include_partial_writers(O, FALSE)
       /\ subs[new].src = StateWriter_include_partial_writers(O, TRUE)
       /\ O = subs[new].src
       /\ ~Hears(subs[old]) /\ Hears(subs[new])


\* << W, the watcher W.part_watcher(map) returned, the field map projects >>
WatchPairs == { << 1, 3, "b" >>, << 2, 4, "a" >> }
\* map applied to what W shows of the cell's value.
MapOf(L, f) == IF ProjOf(L) = "whole" THEN << value[f] >> ELSE View(value, ProjOf(L))

\* C28: the subscriber of W.part_watcher(map)'s stream receives an event
\* exactly when the subscriber of W.raw_modifies() does, whatever the write
\* touched, and read() of the part watcher returns map of W's current value.
C28_PartWatcherIsParentStream ==
  \A pr \in WatchPairs :
    LET W == handles[pr[1]]
        pw == handles[pr[2]]
    IN /\ Top(pw).k = "Watcher"
       /\ Drained => (Hears(RawSub(pw)) <=> Hears(RawSub(W)))
       /\ last.op = "read" /\ last.ok /\ last.h = pr[2] => last.val = MapOf(W, pr[3])

\* A write() through part writer "a" was delivered to the including root's
\* part watcher on field b, which the write did not touch, while a ReadRef of
\* that part watcher was alive.
C28_Witness ==
  /\ Drained
  /\ \A c \in last.batch : c.src = handles[2]
  /\ last.batch # {}
  /\ Hears(RawSub(handles[3])) /\ Hears(RawSub(handles[4]))
  /\ rrefs[3] > 0


\* The step is a call of write() / silent() / shallow() on a split writer: it
\* hands out one more guard, whose writer is a SplittedWriter.
SplitCall == Len(wrefs') = Len(wrefs) + 1 /\ IsSplit(wrefs'[Len(wrefs')].src)

\* C29: a call of write() or silent() on a split writer ORs DATA, and never
\* FRAMEWORK, into the batch slot of the origin's scope and requests a run
\* for it if none is outstanding, before the returned guard is mutated; a
\* call of shallow() leaves the origin's slot and the queue as they were;
\* neither touches the split writer's own slot.
C29_SplitCallCommitsData ==
  [][SplitCall =>
       LET g == wrefs'[Len(wrefs')]
           o == ScopeInfo(Origin(g.src))
       IN /\ ~g.modified
          /\ batched_modifies'[g.info] = batched_modifies[g.info]
          /\ IF g.kind = "shallow"
               THEN /\ batched_modifies'[o] = batched_modifies[o]
                    /\ queue' = queue
               ELSE /\ batched_modifies'[o] = batched_modifies[o] \cup DATA
                    /\ queue' = IF batched_modifies[o] = NoEffect
                                  THEN Append(queue, [path |-> << >>, info |-> o])
                                  ELSE queue
    ]_vars

\* A guard taken by silent() on a split writer was mutated after the call and
\* is still alive: the origin's slot holds the DATA the call committed, with
\* a run requested, and the split writer's own slot is still empty.
C29_Witness ==
  /\ last.op = "deref_mut"
  /\ \E g \in 1 .. Len(wrefs) :
       /\ IsSplit(wrefs[g].src) /\ wrefs[g].kind = "silent" /\ wrefs[g].modified
       /\ batched_modifies[wrefs[g].info] = NoEffect
  /\ batched_modifies[0] = DATA
  /\ Requests(0) = 1
  /\ \A c \in batch[0] : c.role = "origin" /\ c.kind = "silent"

IsPart(L) == L # NoHandle /\ Top(L).k = "Part"

\* C30: what a mutated guard of a part writer commits is on the WriterInfo of
\* the part writer's origin, tagged BOTH / DATA / FRAMEWORK for write() /
\* silent() / shallow(), and carries the part writer's own scope path: in the
\* batch, in the request that was queued for it, and in the event when the
\* guard is drained alone; at every depth of part writers.
C30_PartCommitsOnOriginWithOwnPath ==
  /\ \A i \in Infos : \A c \in batch[i] :
       c.role = "guard" /\ IsPart(c.src) =>
         /\ i = ScopeInfo(Origin(c.src))
         /\ c.effect = KindEffect(c.kind)
         /\ c.path = StateWriter_scope_path(c.src)
  /\ \A r \in 1 .. Len(queue) :
       \A c \in batch[queue[r].info] :
         batch[queue[r].info] = {c} /\ IsPart(c.src) => queue[r].path = c.path
  /\ Drained =>
       \A c \in last.batch :
         last.batch = {c} /\ c.role = "guard" /\ IsPart(c.src) =>
           /\ LastEvent.info = ScopeInfo(Origin(c.src))
           /\ LastEvent.effect = KindEffect(c.kind)
           /\ LastEvent.path = Top(c.src).path

\* A guard taken by shallow() on the part writer "b" of the part writer "a"
\* was mutated, dropped and drained alone: one FRAMEWORK event on the root's
\* WriterInfo with the path a, b.
C30_Witness ==
  /\ Drained
  /\ \E c \in last.batch :
       /\ last.batch = {c} /\ c.kind = "shallow"
       /\ Depth(c.src) = 2 /\ IsPart(c.src)
  /\ LastEvent = [info |-> 0, effect |-> FRAMEWORK, path |-> << "a", "b" >>]


\* The include_partial setting of a writer: its own, or that of the writer a
\* type-erased Writer or a box holds.
RECURSIVE IncludePartialOf(_)
IncludePartialOf(L) ==
  IF Top(L).k \in {"Writer", "Box"} THEN IncludePartialOf(Origin(L)) ELSE Top(L).inc

\* C31: with C = W.part_writer(PartialId::any(), ..) and the same
\* include_partial setting on both, every event the scheduler delivers reaches
\* the raw_modifies() subscriber of C exactly when it reaches that of W,
\* whichever writer of the scope the write went through.
C31_WildcardStreamIsParentStream ==
  WildcardFamily /\ IncludePartialOf(M) = IncludePartialOf(O) /\ Drained =>
    (Hears(RawSub(M)) <=> Hears(RawSub(O)))


\* A mutated guard of a part writer was committed and is not yet drained.
PartCommitPending ==
  \E i \in Infos : \E c \in batch[i] : c.role = "guard" /\ IsPart(c.src)
\* The scheduler drained a batch holding a part writer's commit and the part
\* writer's raw_modifies() subscriber received the event.
PartCommitDelivered ==
  /\ Drained
  /\ \E c \in last.batch : c.role = "guard" /\ IsPart(c.src) /\ Hears(RawSub(c.src))

\* C32: with a scheduler that runs a queued request whenever there is one, a
\* mutated guard committed through a part writer leads to an event delivered
\* to that part writer's own subscribers, also when a commit of its parent is
\* already pending on the same WriterInfo (unless a borrow conflict ended the
\* process).
C32_PartWriteReachesItsSubscribers ==
  PartCommitPending ~> (panicked \/ PartCommitDelivered)


\* C33: while a guard that came from write() / silent() / shallow(), itself or
\* through WriteRef::silent / shallow / map / filter_map, is alive, the cell is
\* exclusively borrowed, a write() and a read() on it fail and no further
\* guard is handed out; the guard's successor under those four operations
\* keeps the borrow; and the cell is unborrowed when the guard is dropped, and
\* not before.
C33_ExclusiveUntilLastDrop ==
  [][/\ wrefs = << >> <=> borrow = 0
     /\ wrefs # << >> =>
          /\ borrow = -1
          /\ ~StateCell_write(Ctx).ok /\ ~StateCell_read(Ctx).ok
          /\ Len(wrefs') <= Len(wrefs)
          /\ wrefs' # << >> => borrow' = -1
          /\ wrefs' = << >> /\ ~panicked' =>
               /\ borrow' = 0
               /\ \E g \in 1 .. Len(wrefs) : DropWriteRef(g)
    ]_vars

\* A guard with the shallow tag that filter_map projected to a field is alive
\* and holds the exclusive borrow.
C33_Witness ==
  /\ last.op = "filter_map" /\ last.ok
  /\ Len(wrefs) = 1
  /\ wrefs[1].kind = "shallow" /\ wrefs[1].proj # "whole"
  /\ ProjOf(wrefs[1].src) = "whole"
  /\ borrow = -1


\* The live SplittedWriters that share WriterInfo i: the handles that are one
\* and the writers derived from one, which hold a clone of it as their origin.
LiveSplittedWriters(i) ==
  UNION { { << h, j >> : j \in { k \in 1 .. Len(handles[h]) :
                                   handles[h][k].k = "Split" /\ handles[h][k].info = i } } :
          h \in Slots }

\* C34: the writer count of every SplittedWriter's WriterInfo is the number of
\* live SplittedWriters sharing it (one from SplittedWriter::new, one more per
\* clone_writer, one less per drop, none once all are gone), and into_reader of
\* a SplittedWriter succeeds exactly when it saw a count of 1, after which no
\* writer of that scope is left.
C34_SplitWriterCount ==
  /\ \A i \in 1 .. MaxSplits :
       /\ writer_count[i] = Cardinality(LiveSplittedWriters(i))
       /\ i > infos => writer_count[i] = 0
  /\ last.op = "into_reader" /\ IsSplit(last.src) =>
       /\ last.ok <=> last.n = 1
       /\ last.ok => writer_count[Top(last.src).info] = 0
       /\ ~last.ok => writer_count[Top(last.src).info] = last.n

\* into_reader of a split writer was refused while a clone of it was alive.
C34_Witness ==
  /\ last.op = "into_reader" /\ IsSplit(last.src)
  /\ ~last.ok /\ last.n = 2
  /\ Cardinality(LiveSplittedWriters(Top(last.src).info)) = 2


\* C35: clone_reader() of a writer of any variant leaves the writer count of
\* every WriterInfo as it was: the handle it returns is no live writer.
C35_CloneReaderIsNoWriter ==
  [][(\E h \in Slots : IsWriter(handles[h]) /\ CloneReader(h)) =>
       writer_count' = writer_count]_vars


\* The step is a call of raw_modifies(), modifies() or clone_watcher() on the
\* part writer in slot h, and the call returns.
PartStreamCall(h) ==
  /\ IsPart(handles[h])
  /\ RawModifies(h, "raw_modifies") \/ RawModifies(h, "modifies") \/ CloneWatcher(h)
  /\ ~panicked'

\* C36: a call of raw_modifies(), modifies() or clone_watcher() on a part
\* writer that returns leaves the batch slots, the scheduler queue, the stored
\* value and the cell's borrow flag as they were and emits nothing: the guard
\* it takes to reach the WriterInfo is dropped unmodified.
C36_PartStreamCallIsSilent ==
  [][\A h \in Slots :
       PartStreamCall(h) =>
         /\ batched_modifies' = batched_modifies /\ batch' = batch
         /\ queue' = queue
         /\ value' = value
         /\ borrow' = borrow
         /\ emitted' = emitted
    ]_vars

\* modifies() was called on a part writer while a commit of it was pending:
\* the slot still holds that commit, its one request is queued and the cell
\* is unborrowed.
C36_Witness ==
  /\ last.op = "modifies" /\ IsPart(last.src)
  /\ batched_modifies[0] = BOTH
  /\ Requests(0) = 1
  /\ \E c \in batch[0] : c.src = last.src
  /\ borrow = 0 /\ wrefs = << >>


\* C37: whenever write() / silent() / shallow() of a split writer's origin
\* returns a guard, whatever the origin is (the root, a type-erased Writer, a
\* part writer, another split writer), the guard is unmodified: the assertion
\* of split_ref holds.
C37_SplitRefAssertionHolds ==
  \A h \in Slots, kind \in Kinds :
    IsSplit(handles[h]) =>
      LET L == handles[h]
          o == StateWriter_write(Origin(L), [h |-> h, src |-> L, kind |-> kind], Ctx)
      IN o.ctx.ok => SplittedWriter_split_ref(Top(L), o.ref, o.ctx).assert

\* A guard of a split writer of a split writer is alive: both split_ref calls
\* passed their assertion, and each committed DATA on its origin's scope.
C37_Witness ==
  /\ Len(wrefs) = 1
  /\ IsSplit(wrefs[1].src) /\ IsSplit(Origin(wrefs[1].src))
  /\ wrefs[1].kind = "write" /\ ~wrefs[1].modified
  /\ batched_modifies[0] = DATA
  /\ batched_modifies[1] = DATA


\* C38: the writer part_writer returns is a PartWriter on the writer it was
\* called on with include_partial false, whatever that writer's setting is;
\* and clone_writer() of a PartWriter returns a writer with the same scope
\* path and include_partial setting, committing on and subscribing to the
\* same WriterInfo.
C38_PartWriterDefaultsAndClones ==
  [][\A h \in Slots :
       /\ (\E id \in PartialIds : PartWriterOf(h, id)) =>
            /\ IsPart(handles'[Free])
            /\ ~Top(handles'[Free]).inc
            /\ Origin(handles'[Free]) = handles[h]
       /\ IsPart(handles[h]) /\ CloneWriter(h) =>
            /\ IsPart(handles'[Free])
            /\ StateWriter_scope_path(handles'[Free]) = StateWriter_scope_path(handles[h])
            /\ Top(handles'[Free]).inc = Top(handles[h]).inc
            /\ ScopeInfo(handles'[Free]) = ScopeInfo(handles[h])
            /\ NotifierOf(handles'[Free]) = NotifierOf(handles[h])
            /\ handles'[h] = handles[h]
    ]_vars

\* A part writer with the default setting, derived from a root that includes
\* its partial writers.
C38_Witness ==
  /\ handles[1] # <<>> /\ handles[2] # <<>>
  /\ Top(handles[1]).k = "Stateful" /\ Top(handles[1]).inc
  /\ IsPart(handles[2]) /\ ~Top(handles[2]).inc
  /\ Origin(handles[2]) = handles[1]

====
